---- MODULE Spec2Model ----
(***************************************************************************)
(* Model of the nutrition resolution pipeline of AI_health_Chatbox         *)
(* (src/models/new_nutrition_pipeline.py, src/models/usda_api.py,          *)
(* src/models/ner_extraction.py).                                          *)
(*                                                                         *)
(* Strings are TLC strings, handled character by character with SubSeq,    *)
(* Len and \o.  Their characters are U+0001 to U+00FF without the grave     *)
(* accent U+0060, and the two characters of the Chinese ice aliases (the   *)
(* second written as U_5757); the str methods (lower, strip, split,        *)
(* isspace), the classes of the regular expressions and LIKE act on these  *)
(* characters as Python's and SQLite's do.                                 *)
(*                                                                         *)
(* A Python float is modelled by the rational its expression has and the   *)
(* way it was computed, from which the IEEE 754 double is derived where it *)
(* decides an outcome; round(x, 2) rounds that double.  nan is 0/0 and the *)
(* infinities are 1/0 and -1/0, with the arithmetic and the comparisons of *)
(* the doubles.  float(s) and int(s) of a str follow the built-ins.        *)
(*                                                                         *)
(* A value that json produces (a response body, a generated reply, a       *)
(* stored ingredient column) is a tagged JSON value, and the operations    *)
(* the code applies to it (in, subscript, len, iteration, float) raise     *)
(* the exception Python raises for a value of the wrong type.              *)
(***************************************************************************)
EXTENDS Integers, Sequences, FiniteSets, TLC

VARIABLES
    standard_nutrition,   \* self.standard_nutrition, in dict (insertion) order
    portion_sizes,        \* self.portion_sizes
    common_dish_keywords, \* self.common_dish_keywords
    main_keywords,        \* self.main_keywords
    sub_keywords,         \* self.sub_keywords
    method,               \* self.method: "llm", "ner" or "hybrid"
    op,                   \* the operation the caller invokes
    args,                 \* its arguments
    env,                  \* the answers of the external collaborators
    rets,                 \* the results of the successive invocations
    chat_history,         \* st.session_state.chat_history
    all_detected_items,   \* st.session_state.all_detected_items
    awaiting_item_confirmation, \* st.session_state.awaiting_item_confirmation
    pipeline_calls        \* the pipeline methods the nutrition chat has invoked

vars == <<standard_nutrition, portion_sizes, common_dish_keywords, main_keywords,
          sub_keywords, method, op, args, env, rets, chat_history,
          all_detected_items, awaiting_item_confirmation, pipeline_calls>>

\* the state of the nutrition chat
session == <<chat_history, all_detected_items, awaiting_item_confirmation,
             pipeline_calls>>

\* the keyword sets of the pipeline
keywords == <<common_dish_keywords, main_keywords, sub_keywords>>

-----------------------------------------------------------------------------
(* Bounds of the model.                                                    *)

\* how many times the caller repeats one invocation
MaxCalls == 2

\* the longest list of foods of one extractor
MaxFoods == 2

\* the number of inputs the user types into the nutrition chat
MaxInputs == 2

\* the largest small quantity of the inputs, in halves
MaxHalves == 6

\* the longest ingredient list of a dish
MaxIngredients == 2

-----------------------------------------------------------------------------
(* Python str operations.                                                  *)

\* the cased letters of the characters U+0001 to U+00FF, the strings of the
\* model being over these characters: A to Z, then the capitals U+00C0 to
\* U+00DE but the multiplication sign, each with the letter str.lower() gives
UpperChars == <<"A","B","C","D","E","F","G","H","I","J","K","L","M",
                "N","O","P","Q","R","S","T","U","V","W","X","Y","Z",
                "À","Á","Â","Ã","Ä","Å","Æ","Ç","È","É","Ê","Ë","Ì","Í","Î",
                "Ï","Ð","Ñ","Ò","Ó","Ô","Õ","Ö","Ø","Ù","Ú","Û","Ü","Ý","Þ">>
LowerChars == <<"a","b","c","d","e","f","g","h","i","j","k","l","m",
                "n","o","p","q","r","s","t","u","v","w","x","y","z",
                "à","á","â","ã","ä","å","æ","ç","è","é","ê","ë","ì","í","î",
                "ï","ð","ñ","ò","ó","ô","õ","ö","ø","ù","ú","û","ü","ý","þ">>

\* one character of str.lower()
LowerChar(c) ==
    IF \E i \in 1..Len(UpperChars) : UpperChars[i] = c
    THEN LowerChars[CHOOSE i \in 1..Len(UpperChars) : UpperChars[i] = c]
    ELSE c

RECURSIVE Lower(_)
\* str.lower()
Lower(s) ==
    IF Len(s) = 0 THEN ""
    ELSE LowerChar(SubSeq(s, 1, 1)) \o Lower(SubSeq(s, 2, Len(s)))

\* str.isspace() of one character, and the class \s of re: the blank, the
\* tab, the line feed, the carriage return, the form feed, and then the
\* vertical tab U+000B, the separators U+001C to U+001F, the next line
\* U+0085 and the no-break space U+00A0
IsSpace(c) ==
    c \in {" ", "\t", "\n", "\r", "\f", "", "", "", "", "", "", " "}

RECURSIVE LStrip(_)
\* str.lstrip()
LStrip(s) ==
    IF Len(s) > 0 /\ IsSpace(SubSeq(s, 1, 1)) THEN LStrip(SubSeq(s, 2, Len(s))) ELSE s

RECURSIVE RStrip(_)
\* str.rstrip()
RStrip(s) ==
    IF Len(s) > 0 /\ IsSpace(SubSeq(s, Len(s), Len(s)))
    THEN RStrip(SubSeq(s, 1, Len(s) - 1)) ELSE s

\* str.strip()
Strip(s) == LStrip(RStrip(s))

RECURSIVE RStripChar(_, _)
\* str.rstrip(c) for a one-character c
RStripChar(s, c) ==
    IF Len(s) > 0 /\ SubSeq(s, Len(s), Len(s)) = c
    THEN RStripChar(SubSeq(s, 1, Len(s) - 1), c) ELSE s

\* k in s (substring containment; the empty string is in every string)
In(k, s) ==
    \E i \in 1..(Len(s) - Len(k) + 1) : SubSeq(s, i, i + Len(k) - 1) = k

\* any(word in s for word in words)
AnyIn(words, s) == \E i \in 1..Len(words) : In(words[i], s)

\* s.startswith(p), s.endswith(p)
StartsWith(s, p) == Len(p) <= Len(s) /\ SubSeq(s, 1, Len(p)) = p
EndsWith(s, p) == Len(p) <= Len(s) /\ SubSeq(s, Len(s) - Len(p) + 1, Len(s)) = p

RECURSIVE Replace(_, _)
\* s.replace(old, ""), for a non-empty old: every occurrence, left to right
Replace(s, old) ==
    IF Len(s) < Len(old) THEN s
    ELSE IF SubSeq(s, 1, Len(old)) = old
         THEN Replace(SubSeq(s, Len(old) + 1, Len(s)), old)
         ELSE SubSeq(s, 1, 1) \o Replace(SubSeq(s, 2, Len(s)), old)

-----------------------------------------------------------------------------
(* Python float arithmetic.  A float is the record                        *)
(* [n |-> numerator, d |-> denominator > 0, how |-> ...]: n/d in lowest    *)
(* terms is the value the expression has over the rationals, and how says  *)
(* which IEEE 754 double it is: <<>> for the double nearest to n/d (a      *)
(* literal, a float(str), a round(x, 2)), <<"*", a, b>> (or "/", "+") for  *)
(* the correctly rounded result of a * b.  The double is only computed     *)
(* where it decides an outcome: a round() of a value halfway between two   *)
(* hundredths, a comparison of two values equal over the rationals.  The   *)
(* floats that are no number have the denominator 0: nan is 0/0, inf is    *)
(* 1/0 and -inf is -1/0.  Numerators and denominators are the integers of  *)
(* TLC, of 32 bits.                                                        *)

Abs(x) == IF x < 0 THEN -x ELSE x

RECURSIVE GCD(_, _)
GCD(a, b) == IF b = 0 THEN a ELSE GCD(b, a % b)

\* the double nearest to n/d (d > 0), n/d in lowest terms
R(n, d) ==
    LET g == GCD(Abs(n), d) IN [n |-> n \div g, d |-> d \div g, how |-> <<>>]

RInt(k) == [n |-> k, d |-> 1, how |-> <<>>]

\* float("nan"), float("inf") and float("-inf")
Nan == [n |-> 0, d |-> 0, how |-> <<>>]
Inf(sign) == [n |-> sign, d |-> 0, how |-> <<>>]
IsNan(x) == x.d = 0 /\ x.n = 0

\* -1, 0, 1 as k is negative, 0, positive
Sgn(k) == IF k > 0 THEN 1 ELSE IF k < 0 THEN -1 ELSE 0

RECURSIVE IsPow2(_)
IsPow2(d) == d = 1 \/ (d > 1 /\ d % 2 = 0 /\ IsPow2(d \div 2))

RECURSIVE Log2(_)
Log2(d) == IF d = 1 THEN 0 ELSE 1 + Log2(d \div 2)

\* the double of x is n/d itself: a dyadic rational of fewer than 53 bits
Exact(x) == x.how = <<>> /\ IsPow2(x.d)

\* the float a op b of value v: v itself where the operands and v are
\* doubles (a correctly rounded operation is then exact)
FloatOp(sign, a, b, v) ==
    IF Exact(a) /\ Exact(b) /\ IsPow2(v.d) THEN v
    ELSE [n |-> v.n, d |-> v.d, how |-> <<sign, a, b>>]

\* the value of a * b, reduced crosswise before multiplying
RMulValue(a, b) ==
    LET g1 == GCD(Abs(a.n), b.d)
        g2 == GCD(Abs(b.n), a.d)
    IN  [n |-> (a.n \div g1) * (b.n \div g2), d |-> (a.d \div g2) * (b.d \div g1),
         how |-> <<>>]

\* a * b (0.0 * b is 0.0 and 1.0 * b is b, exactly; nan * b is nan, inf * 0.0
\* is nan)
RMul(a, b) ==
    IF a.d = 0 \/ b.d = 0
    THEN (IF a.n = 0 \/ b.n = 0 THEN Nan ELSE Inf(Sgn(a.n) * Sgn(b.n)))
    ELSE IF a.n = 0 \/ b.n = 0 THEN RInt(0)
    ELSE IF a = RInt(1) THEN b
    ELSE IF b = RInt(1) THEN a
    ELSE FloatOp("*", a, b, RMulValue(a, b))

\* a / b for b other than 0.0 (nan / b is nan, inf / inf is nan, a / inf is
\* 0.0)
RDiv(a, b) ==
    IF a.d = 0 \/ b.d = 0
    THEN (IF IsNan(a) \/ IsNan(b) \/ a.d = b.d THEN Nan
          ELSE IF a.d = 0 THEN Inf(Sgn(a.n) * Sgn(b.n)) ELSE RInt(0))
    ELSE IF a.n = 0 THEN RInt(0)
    ELSE IF b = RInt(1) THEN a
    ELSE FloatOp("/", a, b, RMulValue(a, [n |-> Sgn(b.n) * b.d, d |-> Abs(b.n)]))

\* the value of a + b
RAddValue(a, b) ==
    LET g == GCD(a.d, b.d)
    IN  R(a.n * (b.d \div g) + b.n * (a.d \div g), (a.d \div g) * b.d)

\* a + b (0.0 + b is b, exactly; nan + b is nan, inf + -inf is nan)
RAdd(a, b) ==
    IF a.d = 0 \/ b.d = 0
    THEN (IF IsNan(a) \/ IsNan(b) \/ (a.d = b.d /\ a.n # b.n) THEN Nan
          ELSE IF a.d = 0 THEN a ELSE b)
    ELSE IF a.n = 0 THEN b
    ELSE IF b.n = 0 THEN a
    ELSE FloatOp("+", a, b, RAddValue(a, b))

\* ---- natural numbers of any size: sequences of limbs base 2^15, the least
\* significant first, the most significant not 0


RECURSIVE BigOf(_)
BigOf(k) == IF k = 0 THEN <<>> ELSE <<k % 32768>> \o BigOf(k \div 32768)

Limb(a, i) == IF i <= Len(a) THEN a[i] ELSE 0

RECURSIVE BTrim(_)
BTrim(a) ==
    IF Len(a) > 0 /\ a[Len(a)] = 0 THEN BTrim(SubSeq(a, 1, Len(a) - 1)) ELSE a

RECURSIVE BCmpFrom(_, _, _)
BCmpFrom(a, b, i) ==
    IF i = 0 THEN 0
    ELSE IF a[i] < b[i] THEN -1
    ELSE IF a[i] > b[i] THEN 1
    ELSE BCmpFrom(a, b, i - 1)

\* -1, 0, 1 as a < b, a = b, a > b
BCmp(a, b) ==
    IF Len(a) < Len(b) THEN -1
    ELSE IF Len(a) > Len(b) THEN 1
    ELSE BCmpFrom(a, b, Len(a))

RECURSIVE BAddFrom(_, _, _, _)
BAddFrom(a, b, i, carry) ==
    IF i > Len(a) /\ i > Len(b) THEN (IF carry = 0 THEN <<>> ELSE <<carry>>)
    ELSE <<(Limb(a, i) + Limb(b, i) + carry) % 32768>>
             \o BAddFrom(a, b, i + 1, (Limb(a, i) + Limb(b, i) + carry) \div 32768)

BAdd(a, b) == BAddFrom(a, b, 1, 0)

RECURSIVE BSubFrom(_, _, _, _)
BSubFrom(a, b, i, borrow) ==
    IF i > Len(a) THEN <<>>
    ELSE <<(a[i] - Limb(b, i) - borrow) % 32768>>
             \o BSubFrom(a, b, i + 1, IF a[i] - Limb(b, i) - borrow < 0 THEN 1 ELSE 0)

\* a - b for a >= b
BSub(a, b) == BTrim(BSubFrom(a, b, 1, 0))

RECURSIVE BMulSmallFrom(_, _, _, _)
BMulSmallFrom(a, k, i, carry) ==
    IF i > Len(a) THEN (IF carry = 0 THEN <<>> ELSE <<carry>>)
    ELSE <<(a[i] * k + carry) % 32768>>
             \o BMulSmallFrom(a, k, i + 1, (a[i] * k + carry) \div 32768)

\* a * k for 0 <= k < 2^15
BMulSmall(a, k) == IF k = 0 THEN <<>> ELSE BMulSmallFrom(a, k, 1, 0)

RECURSIVE Zeros(_)
Zeros(k) == IF k = 0 THEN <<>> ELSE <<0>> \o Zeros(k - 1)

RECURSIVE Pow2(_)
Pow2(k) == IF k = 0 THEN 1 ELSE 2 * Pow2(k - 1)

\* a * 2^k
BShl(a, k) ==
    IF Len(a) = 0 THEN <<>> ELSE Zeros(k \div 15) \o BMulSmall(a, Pow2(k % 15))

RECURSIVE BMulFrom(_, _, _)
BMulFrom(a, b, i) ==
    IF i > Len(b) THEN <<>>
    ELSE BAdd(Zeros(i - 1) \o BMulSmall(a, b[i]), BMulFrom(a, b, i + 1))

BMul(a, b) == IF Len(a) = 0 \/ Len(b) = 0 THEN <<>> ELSE BTrim(BMulFrom(a, b, 1))

RECURSIVE Bits(_)
\* the number of binary digits of k
Bits(k) == IF k = 0 THEN 0 ELSE 1 + Bits(k \div 2)

BitLen(a) == IF Len(a) = 0 THEN 0 ELSE 15 * (Len(a) - 1) + Bits(a[Len(a)])

\* ---- IEEE 754 doubles: [m |-> a natural number, e |-> an integer], the
\* value m * 2^e, and with the sign s (-1, 0, 1) the value s * m * 2^e

RECURSIVE DivBits(_, _, _, _)
\* the remainder r (0 <= r < 2q) less q where a quotient digit 1 is due
DivRest(r, q, bit) == IF bit = 1 THEN BSub(r, q) ELSE r

\* the remainder d doubled for the next digit
DivStep(d, q, k, acc) == DivBits(BAdd(d, d), q, k - 1, acc)

\* the next k < 31 binary digits of the quotient r / q (0 <= r < 2q)
\* appended to the digits acc, and the doubled remainder
DivBits(r, q, k, acc) ==
    IF k = 0 THEN [q |-> acc, r |-> r]
    ELSE IF BCmp(r, q) >= 0 THEN DivStep(DivRest(r, q, 1), q, k, 2 * acc + 1)
    ELSE DivStep(r, q, k, 2 * acc)

RECURSIVE DivLimbs(_, _, _, _)
\* the limb of digits found put before the limbs m
DivLimb(found, q, ks, m) == DivLimbs(found.r, q, Tail(ks), <<found.q>> \o m)

\* the quotient r / q (0 <= r < 2q) to ks[1] + ks[2] + ... binary digits, a
\* limb for each, and the doubled remainder
DivLimbs(r, q, ks, m) ==
    IF ks = <<>> THEN [q |-> m, r |-> r]
    ELSE DivLimb(DivBits(r, q, Head(ks), 0), q, ks, m)

\* the 53 digits m followed by a doubled remainder that compares as c with
\* the divisor: rounded to nearest, ties to even
Rounded53(m, c, e) ==
    [m |-> BAdd(m, IF c > 0 \/ (c = 0 /\ m[1] % 2 = 1) THEN <<1>> ELSE <<>>), e |-> e]

RoundDigits(last, q, e) == Rounded53(last.q, BCmp(last.r, q), e)

\* the double nearest to (p / q) * 2^(e + 52), for q <= p < 2q
RoundUnit(p, q, e) == RoundDigits(DivLimbs(p, q, <<8, 15, 15, 15>>, <<>>), q, e)

\* the double nearest to (p / q) * 2^(e + 52), for q/2 < p < 2q, c comparing
\* p with q
RoundNear(p, q, e, c) ==
    RoundUnit(IF c < 0 THEN BAdd(p, p) ELSE p, q, IF c < 0 THEN e - 1 ELSE e)

RoundAligned(p, q, e) == RoundNear(p, q, e, BCmp(p, q))

\* the double nearest to (p / q) * 2^e, p having k binary digits more than
\* q: p and q are brought to the same number of binary digits first
RoundShifted(p, q, e, k) ==
    RoundAligned(BShl(p, IF k < 0 THEN -k ELSE 0), BShl(q, IF k > 0 THEN k ELSE 0),
                 e + k - 52)

RECURSIVE BDivSmallFrom(_, _, _, _, _)
BDivSmallFrom(a, k, i, rem, acc) ==
    IF i = 0 THEN [q |-> BTrim(acc), r |-> rem]
    ELSE BDivSmallFrom(a, k, i - 1, (rem * 32768 + a[i]) % k,
                       <<(rem * 32768 + a[i]) \div k>> \o acc)

\* the quotient and the remainder of a by k, for 0 < k < 2^15
BDivSmall(a, k) == BDivSmallFrom(a, k, Len(a), 0, <<>>)

\* a \div 2^k
BShr(a, k) == BDivSmall(SubSeq(a, k \div 15 + 1, Len(a)), Pow2(k % 15)).q

\* a number n of more than 53 binary digits, plus a fraction that is 0 (more
\* = 0) or lies strictly between 0 and 1 (more = 1): m is its first 53
\* digits, j digits are dropped and rest is what they are worth
RoundCut(m, rest, more, j, e) ==
    Rounded53(m, BCmp(BAddFrom(rest, rest, 1, more), BShl(<<1>>, j)), e + j)
RoundFirst(n, m, more, j, e) == RoundCut(m, BSub(n, BShl(m, j)), more, j, e)
RoundDrop(n, more, j, e) == RoundFirst(n, BShr(n, j), more, j, e)

\* the double nearest to (found.q + found.r / d) * 2^e, for found.r < d
RoundQuotient(found, e) ==
    RoundDrop(found.q, IF found.r = 0 THEN 0 ELSE 1, BitLen(found.q) - 53, e)

\* the double nearest to (p / d) * 2^e for 0 < d < 2^15: the quotient of
\* p * 2^k by d has more than 53 binary digits
RoundSmall(p, d, e, k) == RoundQuotient(BDivSmall(BShl(p, k), d), e - k)

\* the double nearest to (t.p / t.q) * 2^t.e, for t.q > 0
RoundRatio(t) ==
    IF Len(t.p) = 0 THEN [m |-> <<>>, e |-> 0]
    ELSE IF Len(t.q) = 1
    THEN RoundSmall(t.p, t.q[1], t.e,
                    IF BitLen(t.p) - Bits(t.q[1]) < 55
                    THEN 55 - (BitLen(t.p) - Bits(t.q[1])) ELSE 0)
    ELSE RoundShifted(t.p, t.q, t.e, BitLen(t.p) - BitLen(t.q))

Min(a, b) == IF a < b THEN a ELSE b

\* the difference of the naturals a and b of the signs sa and sb, c comparing
\* a with b
DblDiff(sa, a, sb, b, e, c) ==
    [s |-> IF c > 0 THEN sa ELSE IF c < 0 THEN sb ELSE 0,
     p |-> IF c >= 0 THEN BSub(a, b) ELSE BSub(b, a), q |-> <<1>>, e |-> e]

\* sa * a * 2^e + sb * b * 2^e, as a ratio
DblAligned(sa, a, sb, b, e) ==
    IF sa * sb >= 0
    THEN [s |-> IF sa # 0 THEN sa ELSE sb, p |-> BAdd(a, b), q |-> <<1>>, e |-> e]
    ELSE DblDiff(sa, a, sb, b, e, BCmp(a, b))

\* a + b of two doubles, as a ratio, e the smaller exponent
DblSum(a, b, e) == DblAligned(a.s, BShl(a.m, a.e - e), b.s, BShl(b.m, b.e - e), e)

\* a sign b of two doubles, as a ratio with its sign
DblOp(sign, a, b) ==
    IF sign = "*"
    THEN [s |-> a.s * b.s, p |-> BMul(a.m, b.m), q |-> <<1>>, e |-> a.e + b.e]
    ELSE IF sign = "/" THEN [s |-> a.s * b.s, p |-> a.m, q |-> b.m, e |-> a.e - b.e]
    ELSE DblSum(a, b, Min(a.e, b.e))

\* the double f with the sign s
DblSigned(s, f) == [s |-> IF Len(f.m) = 0 THEN 0 ELSE s, m |-> f.m, e |-> f.e]

\* the double nearest to a ratio with its sign
DblOf(t) == DblSigned(t.s, RoundRatio(t))

RECURSIVE Dbl(_)
\* the double a float is, for a float that is a number
Dbl(x) ==
    IF x.how = <<>> /\ IsPow2(x.d)
    THEN [s |-> Sgn(x.n), m |-> BigOf(Abs(x.n)), e |-> -Log2(x.d)]
    ELSE DblOf(IF x.how = <<>>
               THEN [s |-> Sgn(x.n), p |-> BigOf(Abs(x.n)), q |-> BigOf(x.d), e |-> 0]
               ELSE DblOp(x.how[1], Dbl(x.how[2]), Dbl(x.how[3])))

\* -1, 0, 1 as the double f without its sign is less than, equal to, greater
\* than n/d
DblCmpRatio(f, n, d) ==
    BCmp(BShl(BMul(f.m, BigOf(d)), IF f.e > 0 THEN f.e ELSE 0),
         BShl(BigOf(n), IF f.e < 0 THEN -f.e ELSE 0))

\* -1, 0, 1 as the double f is less than, equal to, greater than g
DblCmpAt(f, g, e) == BCmp(BShl(f.m, f.e - e), BShl(g.m, g.e - e))
DblCmp(fs) ==
    IF fs[1].s # fs[2].s THEN Sgn(fs[1].s - fs[2].s)
    ELSE fs[1].s * DblCmpAt(fs[1], fs[2], Min(fs[1].e, fs[2].e))

\* a < b: by the values, and by the doubles where the values are equal; a
\* comparison with nan is False
RLt(a, b) ==
    IF a.d = 0 \/ b.d = 0
    THEN ~IsNan(a) /\ ~IsNan(b)
            /\ (IF a.d = 0 THEN a.n ELSE 0) < (IF b.d = 0 THEN b.n ELSE 0)
    ELSE IF a.n * b.d # b.n * a.d THEN a.n * b.d < b.n * a.d
    ELSE IF Exact(a) /\ Exact(b) THEN FALSE
    ELSE DblCmp([i \in 1..2 |-> Dbl(IF i = 1 THEN a ELSE b)]) < 0
RGt(a, b) == RLt(b, a)
RMin(a, b) == IF RLt(b, a) THEN b ELSE a
RMax(a, b) == IF RGt(b, a) THEN b ELSE a

\* the hundredth a value halfway between hundredths h and h + 1 goes to, c
\* comparing its double with the halfway point
TieSide(c, h) == IF c > 0 THEN 1 ELSE IF c < 0 THEN 0 ELSE h % 2

\* round(x, 2) of a value that is, without its sign, h hundredths and r/d of
\* a hundredth (0 <= r < d): to the nearest hundredth of the double.  A value
\* halfway between two hundredths is a double only if it is a dyadic
\* rational, and goes to the even hundredth then; otherwise the double lies
\* on one side of it
Round2Of(x, h, r) ==
    R(Sgn(x.n) * (h + (IF 2 * r > x.d THEN 1
                       ELSE IF 2 * r < x.d THEN 0
                       ELSE IF Exact(x) THEN h % 2
                       ELSE TieSide(DblCmpRatio(Dbl(x), 2 * h + 1, 200), h))),
      100)

\* the hundredths of n/d and what is left of it, for n >= 0
Round2Abs(x, n) ==
    Round2Of(x, (n \div x.d) * 100 + ((n % x.d) * 100) \div x.d,
             ((n % x.d) * 100) % x.d)

\* round(x, 2): nan and the infinities are their own roundings
Round2(x) == IF x.d = 0 THEN x ELSE Round2Abs(x, Abs(x.n))

-----------------------------------------------------------------------------
(* Python float(s) of a str.                                               *)

Digits == <<"0", "1", "2", "3", "4", "5", "6", "7", "8", "9">>
IsDigit(c) == \E i \in 1..10 : Digits[i] = c
DigitValue(c) == (CHOOSE i \in 1..10 : Digits[i] = c) - 1
IsLetter(c) == \E i \in 1..26 : UpperChars[i] = c \/ LowerChars[i] = c

CharAt(s, i) == SubSeq(s, i, i)

RECURSIVE RunLength(_, _, _)
\* the length of the longest run of characters of a class starting at s[i]
RunLength(IsIn(_), s, i) ==
    IF i <= Len(s) /\ IsIn(CharAt(s, i)) THEN 1 + RunLength(IsIn, s, i + 1) ELSE 0

\* the character at s[i], "" outside the string
At(s, i) == IF i >= 1 /\ i <= Len(s) THEN SubSeq(s, i, i) ELSE ""

RECURSIVE DigitsValue(_)
\* the number a string of digits writes
DigitsValue(s) ==
    IF Len(s) = 0 THEN 0
    ELSE 10 * DigitsValue(SubSeq(s, 1, Len(s) - 1)) + DigitValue(CharAt(s, Len(s)))

RECURSIVE Pow10(_)
Pow10(k) == IF k = 0 THEN 1 ELSE 10 * Pow10(k - 1)

\* float(s) for a string of digits and dots: ok is FALSE where float raises
\* ValueError (no digit, or more than one dot)
ParseFloat(s) ==
    LET parsed(ni, dot, nf) ==
            IF ni + (IF dot THEN 1 + nf ELSE 0) = Len(s) /\ ni + nf > 0
            THEN [ok |-> TRUE,
                  value |-> R(DigitsValue(SubSeq(s, 1, ni)) * Pow10(nf)
                              + DigitsValue(SubSeq(s, ni + 2, ni + 1 + nf)), Pow10(nf))]
            ELSE [ok |-> FALSE, value |-> RInt(0)]
        fraction(ni, dot) ==
            parsed(ni, dot, IF dot THEN RunLength(IsDigit, s, ni + 2) ELSE 0)
        integer(ni) == fraction(ni, ni < Len(s) /\ CharAt(s, ni + 1) = ".")
    IN  integer(RunLength(IsDigit, s, 1))

\* every underscore of s stands between two digits
UnderscoresBetweenDigits(s) ==
    \A i \in 1..Len(s) :
        CharAt(s, i) = "_" => IsDigit(At(s, i - 1)) /\ IsDigit(At(s, i + 1))

\* the number the digits of an exponent write, 1000 for a larger one
ExponentDigits(digits) == IF Len(digits) > 3 THEN 1000 ELSE DigitsValue(digits)
ExponentValue(digits) ==
    ExponentDigits(SubSeq(digits, 1 + RunLength(LAMBDA c : c = "0", digits, 1), Len(digits)))

\* the double nearest to v * 10^e, for a v that is a number: inf above the
\* largest double, 0.0 below the smallest
TimesPow10(v, e) ==
    IF v.n = 0 THEN v
    ELSE IF e >= 330 THEN Inf(1)
    ELSE IF e <= -350 THEN RInt(0)
    ELSE IF e >= 0 THEN R(v.n * Pow10(e), v.d)
    ELSE R(v.n, v.d * Pow10(-e))

NoFloat == [ok |-> FALSE, value |-> RInt(0)]

\* the mantissa times the power of ten the digits of the exponent write
float_scaled(mantissa, digits, negative) ==
    IF mantissa.ok /\ Len(digits) >= 1 /\ RunLength(IsDigit, digits, 1) = Len(digits)
    THEN [ok |-> TRUE,
          value |-> TimesPow10(mantissa.value,
                               IF negative THEN -ExponentValue(digits)
                               ELSE ExponentValue(digits))]
    ELSE NoFloat

\* s is a mantissa before s[k] and, if k is an index of s, the letter e or E
\* there and an exponent whose digits start at s[j]
float_exponent(s, k, j) ==
    IF k > Len(s) THEN ParseFloat(s)
    ELSE float_scaled(ParseFloat(SubSeq(s, 1, k - 1)), SubSeq(s, j, Len(s)),
                      At(s, k + 1) = "-")

\* float(s) of digits, a dot and an exponent, the first e or E being s[k]
float_mantissa(s, k) ==
    float_exponent(s, k, IF At(s, k + 1) \in {"+", "-"} THEN k + 2 ELSE k + 1)

\* float(s) of a number written without underscores
float_digits(s) == float_mantissa(s, 1 + RunLength(LAMBDA c : c \notin {"e", "E"}, s, 1))

\* float(s) of a string without sign: inf, infinity and nan in any case, or
\* a decimal number, whose digits single underscores may separate
float_unsigned(s) ==
    IF Lower(s) \in {"inf", "infinity"} THEN [ok |-> TRUE, value |-> Inf(1)]
    ELSE IF Lower(s) = "nan" THEN [ok |-> TRUE, value |-> Nan]
    ELSE IF UnderscoresBetweenDigits(s) THEN float_digits(Replace(s, "_"))
    ELSE NoFloat

\* the float f with the sign of the string
float_negated(f) == [ok |-> f.ok, value |-> [f.value EXCEPT !.n = -f.value.n]]

\* float(s) of a stripped string
float_signed(s) ==
    IF At(s, 1) = "-" THEN float_negated(float_unsigned(SubSeq(s, 2, Len(s))))
    ELSE IF At(s, 1) = "+" THEN float_unsigned(SubSeq(s, 2, Len(s)))
    ELSE float_unsigned(s)

\* the characters float() and int() skip around a number: the whitespace
\* but the separators U+001C to U+001F
IsNumberSpace(c) == IsSpace(c) /\ c \notin {"", "", "", ""}

RECURSIVE RStripNumber(_)
RStripNumber(s) ==
    IF Len(s) > 0 /\ IsNumberSpace(SubSeq(s, Len(s), Len(s)))
    THEN RStripNumber(SubSeq(s, 1, Len(s) - 1)) ELSE s

StripNumber(s) == RStripNumber(SubSeq(s, 1 + RunLength(IsNumberSpace, s, 1), Len(s)))

\* float(s) of a str: ok is FALSE where it raises ValueError
float_str(s) == float_signed(StripNumber(s))

-----------------------------------------------------------------------------
(* NutritionPipeline.__init__: the tables.                                 *)

Nutr(cal, pro, fat, carb) ==
    [calories |-> cal, protein |-> pro, fat |-> fat, carbs |-> carb]

Entry(key, cal, pro, fat, carb) ==
    [key |-> key, calories |-> cal, protein |-> pro, fat |-> fat, carbs |-> carb]

\* self.standard_nutrition (per 100 g/ml), in insertion order: the beverages
\* without the entry "water"
BeverageEntries_without_water == <<
    Entry("coke",                R(375, 10), RInt(0),    RInt(0),    R(106, 10)),
    Entry("cola",                R(375, 10), RInt(0),    RInt(0),    R(106, 10)),
    Entry("coca-cola",           R(375, 10), RInt(0),    RInt(0),    R(106, 10)),
    Entry("pepsi",               RInt(41),   RInt(0),    RInt(0),    RInt(11)),
    Entry("ice",                 RInt(0),    RInt(0),    RInt(0),    RInt(0)) >>

\* self.standard_nutrition (per 100 g/ml), in insertion order: the beverages
BeverageEntries == <<
    Entry("coke",                R(375, 10), RInt(0),    RInt(0),    R(106, 10)),
    Entry("cola",                R(375, 10), RInt(0),    RInt(0),    R(106, 10)),
    Entry("coca-cola",           R(375, 10), RInt(0),    RInt(0),    R(106, 10)),
    Entry("pepsi",               RInt(41),   RInt(0),    RInt(0),    RInt(11)),
    Entry("ice",                 RInt(0),    RInt(0),    RInt(0),    RInt(0)),
    Entry("water",               RInt(0),    RInt(0),    RInt(0),    RInt(0)) >>

\* the dishes
DishEntries == <<
    Entry("mac and cheese",      RInt(164),  R(85, 10),  R(63, 10),  R(178, 10)),
    Entry("macaroni and cheese", RInt(164),  R(85, 10),  R(63, 10),  R(178, 10)),
    Entry("mac & cheese",        RInt(164),  R(85, 10),  R(63, 10),  R(178, 10)) >>

\* the common ingredients
IngredientEntries == <<
    Entry("chicken",             RInt(165),  RInt(31),   R(36, 10),  RInt(0)),
    Entry("beef",                RInt(250),  RInt(26),   RInt(17),   RInt(0)),
    Entry("fish",                RInt(136),  RInt(20),   RInt(5),    RInt(0)),
    Entry("rice",                RInt(130),  R(27, 10),  R(3, 10),   RInt(28)),
    Entry("pasta",               RInt(131),  RInt(5),    R(11, 10),  RInt(25)),
    Entry("bread",               RInt(265),  RInt(9),    R(32, 10),  RInt(49)) >>

StandardNutritionTable == BeverageEntries \o DishEntries \o IngredientEntries

\* self.portion_sizes
PortionSizesTable ==
    [cup |-> 240, tablespoon |-> 15, teaspoon |-> 5, slice |-> 30, piece |-> 50,
     serving |-> 250]

-----------------------------------------------------------------------------
(* NutritionPipeline.convert_to_grams                                      *)

\* the portion-size table ignored: the default for every unit
PortionGet_always_default(portion, key, default) == default

\* dict.get(key, default) on self.portion_sizes
PortionGet(portion, key, default) ==
    IF key \in DOMAIN portion THEN portion[key] ELSE default

\* convert_to_grams(qty, unit): the grams of qty units
convert_to_grams(portion, qty, unit) ==
    LET grams(u) ==
    IF u \in {"g", "gram", "grams"} THEN qty
    ELSE IF u \in {"kg", "kilogram", "kilograms"} THEN RMul(qty, RInt(1000))
    ELSE IF u \in {"oz", "ounce", "ounces"} THEN RMul(qty, R(2835, 100))
    ELSE IF u \in {"lb", "pound", "pounds"} THEN RMul(qty, R(453592, 1000))
    ELSE IF u \in {"cup", "cups"} THEN RMul(qty, RInt(240))
    ELSE IF u \in {"tbsp", "tablespoon", "tablespoons"} THEN RMul(qty, RInt(15))
    ELSE IF u \in {"tsp", "teaspoon", "teaspoons"} THEN RMul(qty, RInt(5))
    ELSE IF u \in {"ml", "milliliter"} THEN qty
    ELSE IF u \in {"piece", "pieces", "slice", "slices"}
         THEN RMul(qty, RInt(PortionGet(portion, RStripChar(u, "s"), 30)))
    ELSE qty
    IN  grams(Lower(unit))

-----------------------------------------------------------------------------
(* The values of JSON, as json.loads and response.json() return them.  A   *)
(* value is a record [t, s, q, items] with t one of "str", "num", "lit",   *)
(* "arr", "obj": s is the text of a str and the name of a literal (true,   *)
(* false, null), q the float of a number; the items of an array are its    *)
(* values and those of an object its members [k, v], in order.             *)

JStr(s) == [t |-> "str", s |-> s, q |-> RInt(0), items |-> <<>>]
JNum(q) == [t |-> "num", s |-> "", q |-> q, items |-> <<>>]
JLit(s) == [t |-> "lit", s |-> s, q |-> RInt(0), items |-> <<>>]
JArr(items) == [t |-> "arr", s |-> "", q |-> RInt(0), items |-> items]
JObj(members) == [t |-> "obj", s |-> "", q |-> RInt(0), items |-> members]

\* obj[key] of a parsed object: the last member of that name
HasKey(obj, key) == \E i \in 1..Len(obj.items) : obj.items[i].k = key
GetKey(obj, key) ==
    obj.items[CHOOSE i \in 1..Len(obj.items) :
                 /\ obj.items[i].k = key
                 /\ \A j \in (i + 1)..Len(obj.items) : obj.items[j].k # key].v

\* the outcome of an expression on JSON values: exc is the exception it
\* raises ("" for none), val its value
JRaised(exc) == [exc |-> exc, val |-> JLit("null")]
JValue(val) == [exc |-> "", val |-> val]

\* key in x, for an x that is no number and no literal: a key of a dict, an
\* element of a list, a part of a str
JsonIn(key, x) ==
    IF x.t = "obj" THEN HasKey(x, key)
    ELSE IF x.t = "arr" THEN \E i \in 1..Len(x.items) :
                                x.items[i].t = "str" /\ x.items[i].s = key
    ELSE In(key, x.s)

\* x[key] for a key that is a str: only a dict takes it
JsonSubscript(x, key) ==
    IF x.t # "obj" THEN JRaised("TypeError")
    ELSE IF HasKey(x, key) THEN JValue(GetKey(x, key))
    ELSE JRaised("KeyError")

\* len(x), for an x that is no number and no literal
JsonLen(x) == IF x.t = "str" THEN Len(x.s) ELSE Len(x.items)

\* x[0] of a list or a str that is not empty
JsonFirst(x) == IF x.t = "str" THEN JStr(SubSeq(x.s, 1, 1)) ELSE x.items[1]

\* what a for loop over x visits, for an x that is no number and no
\* literal: the elements of a list, the keys of a dict, the characters of a
\* str
JsonIter(x) ==
    IF x.t = "arr" THEN x.items
    ELSE IF x.t = "obj" THEN [i \in 1..Len(x.items) |-> JStr(x.items[i].k)]
    ELSE [i \in 1..Len(x.s) |-> JStr(SubSeq(x.s, i, i))]

\* the float of a str, or the exception of float(s)
float_of_str(f) ==
    IF f.ok THEN [exc |-> "", value |-> f.value] ELSE [exc |-> "ValueError", value |-> RInt(0)]

\* float(x) of a JSON value: the number, 1.0 and 0.0 for true and false, the
\* float a str writes; exc is the exception it raises otherwise
float_of(x) ==
    IF x.t = "num" THEN [exc |-> "", value |-> x.q]
    ELSE IF x.t = "lit" /\ x.s # "null"
    THEN [exc |-> "", value |-> RInt(IF x.s = "true" THEN 1 ELSE 0)]
    ELSE IF x.t = "str" THEN float_of_str(float_str(x.s))
    ELSE [exc |-> "TypeError", value |-> RInt(0)]

-----------------------------------------------------------------------------
(* USDAFoodLookup.search_food                                              *)

\* What requests.get answers.  exc: the exception it raises ("" for none);
\* status_code; json_ok: response.json() parses; data: the value it returns.
ResponseOf(exc, status, json_ok, data) ==
    [exc |-> exc, status_code |-> status, json_ok |-> json_ok, data |-> data]

\* the answer whose body is an object, with the list foods under the key
\* "foods" if it has that key
Response(exc, status, json_ok, has_foods, foods) ==
    ResponseOf(exc, status, json_ok,
               JObj(IF has_foods THEN <<[k |-> "foods", v |-> JArr(foods)]>> ELSE <<>>))

\* one entry of foodNutrients: a JSON object with the keys it has
NutrientWith(keys, name, value) ==
    JObj((IF "nutrientName" \in keys THEN <<[k |-> "nutrientName", v |-> JStr(name)]>>
          ELSE <<>>)
         \o (IF "value" \in keys THEN <<[k |-> "value", v |-> JNum(value)]>> ELSE <<>>))
Nutrient(name, value) == NutrientWith({"nutrientName", "value"}, name, value)

\* one food of the answer: a JSON object with the keys it has
FoodData(keys, description, foodNutrients) ==
    JObj((IF "description" \in keys THEN <<[k |-> "description", v |-> JStr(description)]>>
          ELSE <<>>)
         \o (IF "foodNutrients" \in keys
             THEN <<[k |-> "foodNutrients", v |-> JArr(foodNutrients)]>> ELSE <<>>))

\* the nutrient names _extract_nutrition_info reads the value of
ReadNutrients == {"Energy", "Protein", "Total lipid (fat)", "Carbohydrate, by difference"}

\* nutrient["nutrientName"] == name, for a nutrient that has the key
IsNamed(nutrient, name) ==
    GetKey(nutrient, "nutrientName").t = "str" /\ GetKey(nutrient, "nutrientName").s = name

\* the exception lines 29-36 raise for one element of the loop, "" for none:
\* the element is no dict, has no "nutrientName", or has one of the four
\* names and no "value"
nutrient_exc(nutrient) ==
    IF nutrient.t # "obj" THEN "TypeError"
    ELSE IF ~HasKey(nutrient, "nutrientName") THEN "KeyError"
    ELSE IF (\E name \in ReadNutrients : IsNamed(nutrient, name)) /\ ~HasKey(nutrient, "value")
    THEN "KeyError"
    ELSE ""

\* the exception that ends the loop of lines 28-36: that of the first
\* element that raises one
loop_exc(nutrients) ==
    IF \A i \in 1..Len(nutrients) : nutrient_exc(nutrients[i]) = "" THEN ""
    ELSE nutrient_exc(nutrients[CHOOSE i \in 1..Len(nutrients) :
                                   /\ nutrient_exc(nutrients[i]) # ""
                                   /\ \A j \in 1..(i - 1) : nutrient_exc(nutrients[j]) = ""])

RECURSIVE NutrientValue(_, _, _)
\* the value the loop of _extract_nutrition_info leaves under one key: that
\* of the last nutrient of that name, or the default of nutrients.get
NutrientValue(foodNutrients, name, default) ==
    IF Len(foodNutrients) = 0 THEN default
    ELSE IF IsNamed(foodNutrients[Len(foodNutrients)], name)
    THEN GetKey(foodNutrients[Len(foodNutrients)], "value")
    ELSE NutrientValue(SubSeq(foodNutrients, 1, Len(foodNutrients) - 1), name, default)

\* the dict _extract_nutrition_info returns: the name and four JSON values
Extracted(food, cal, pro, fat, carb) ==
    [food |-> food, calories |-> cal, protein |-> pro, fat |-> fat, carbs |-> carb]

NoNutrition == Nutr(RInt(0), RInt(0), RInt(0), RInt(0))
NoData == Extracted("", JNum(RInt(0)), JNum(RInt(0)), JNum(RInt(0)), JNum(RInt(0)))

\* lines 38-44 after the loop over nutrients: food_data is a dict
extract_described(food_data, nutrients) ==
    IF ~HasKey(food_data, "description") THEN [exc |-> "KeyError", value |-> NoData]
    ELSE IF GetKey(food_data, "description").t # "str"
    THEN [exc |-> "AttributeError", value |-> NoData]
    ELSE [exc |-> "",
          value |-> Extracted(Lower(GetKey(food_data, "description").s),
                        NutrientValue(nutrients, "Energy", JNum(RInt(0))),
                        NutrientValue(nutrients, "Protein", JNum(RInt(0))),
                        NutrientValue(nutrients, "Total lipid (fat)", JNum(RInt(0))),
                        NutrientValue(nutrients, "Carbohydrate, by difference",
                                      JNum(RInt(0))))]

\* lines 28-44 for the elements the loop visits
extract_looped(food_data, nutrients) ==
    IF loop_exc(nutrients) # "" THEN [exc |-> loop_exc(nutrients), value |-> NoData]
    ELSE extract_described(food_data, nutrients)

\* lines 28-44 for the outcome of food_data["foodNutrients"]
extract_nutrients(food_data, nutrients) ==
    IF nutrients.exc # "" THEN [exc |-> nutrients.exc, value |-> NoData]
    ELSE IF nutrients.val.t \in {"num", "lit"} THEN [exc |-> "TypeError", value |-> NoData]
    ELSE extract_looped(food_data, JsonIter(nutrients.val))

\* _extract_nutrition_info(food_data): exc is the exception a subscript, the
\* loop or the call of lower raises, value the dict it returns otherwise
_extract_nutrition_info(food_data) ==
    extract_nutrients(food_data, JsonSubscript(food_data, "foodNutrients"))

\* lines 21-22 for the outcome of _extract_nutrition_info
search_food_extracted(info) ==
    [exc |-> info.exc, found |-> info.exc = "", data |-> info.value]

\* search_food returns None, or an exception leaves it
search_food_none(exc) == [exc |-> exc, found |-> FALSE, data |-> NoData]

\* lines 21-22 for the outcome of data["foods"]: a number or a literal has no
\* len, and a dict takes no subscript 0
search_food_foods(foods) ==
    IF foods.exc # "" THEN search_food_none(foods.exc)
    ELSE IF foods.val.t \in {"num", "lit"} THEN search_food_none("TypeError")
    ELSE IF JsonLen(foods.val) = 0 THEN search_food_none("")
    ELSE IF foods.val.t = "obj" THEN search_food_none("KeyError")
    ELSE search_food_extracted(_extract_nutrition_info(JsonFirst(foods.val)))

\* lines 21-23 for the body of the answer: the test "foods" in data raises
\* TypeError for a number or a literal
search_food_data(data) ==
    IF data.t \in {"num", "lit"} THEN search_food_none("TypeError")
    ELSE IF JsonIn("foods", data) THEN search_food_foods(JsonSubscript(data, "foods"))
    ELSE search_food_none("")

\* search_food(food_name): exc is the exception that leaves the function (""
\* when it returns), found is FALSE when it returns None or raises
search_food(resp) ==
    IF resp.exc # "" THEN search_food_none(resp.exc)
    ELSE IF resp.status_code # 200 THEN search_food_none("")
    ELSE IF ~resp.json_ok THEN search_food_none("JSONDecodeError")
    ELSE search_food_data(resp.data)

-----------------------------------------------------------------------------
(* Food categories                                                         *)

\* _identify_food_category with the density thresholds tested before the
\* keywords
_identify_food_category_density_first(food_name, calories_per_100g) ==
    LET category(food) ==
    IF RGt(calories_per_100g, RInt(800)) THEN "oil"
    ELSE IF RGt(calories_per_100g, RInt(300)) THEN "meat"
    ELSE IF AnyIn(<<"chicken", "beef", "pork", "fish", "meat", "turkey">>, food) THEN "meat"
    ELSE IF AnyIn(<<"rice", "pasta", "noodle", "bread", "cereal", "grain">>, food) THEN "grain"
    ELSE IF AnyIn(<<"vegetable", "carrot", "broccoli", "spinach", "lettuce">>, food)
         THEN "vegetable"
    ELSE IF AnyIn(<<"fruit", "apple", "orange", "banana", "berry">>, food) THEN "fruit"
    ELSE IF AnyIn(<<"milk", "cheese", "yogurt", "cream", "dairy">>, food) THEN "dairy"
    ELSE IF AnyIn(<<"oil", "butter", "margarine", "lard">>, food) THEN "oil"
    ELSE IF AnyIn(<<"drink", "beverage", "water", "juice", "soda", "coke", "cola">>, food)
         THEN "beverage"
    ELSE IF RGt(calories_per_100g, RInt(200)) THEN "grain"
    ELSE IF RLt(calories_per_100g, RInt(30)) THEN "vegetable"
    ELSE "unknown"
    IN  category(Lower(food_name))

\* _identify_food_category(food_name, calories_per_100g)
_identify_food_category(food_name, calories_per_100g) ==
    LET category(food) ==
    IF AnyIn(<<"chicken", "beef", "pork", "fish", "meat", "turkey">>, food) THEN "meat"
    ELSE IF AnyIn(<<"rice", "pasta", "noodle", "bread", "cereal", "grain">>, food) THEN "grain"
    ELSE IF AnyIn(<<"vegetable", "carrot", "broccoli", "spinach", "lettuce">>, food)
         THEN "vegetable"
    ELSE IF AnyIn(<<"fruit", "apple", "orange", "banana", "berry">>, food) THEN "fruit"
    ELSE IF AnyIn(<<"milk", "cheese", "yogurt", "cream", "dairy">>, food) THEN "dairy"
    ELSE IF AnyIn(<<"oil", "butter", "margarine", "lard">>, food) THEN "oil"
    ELSE IF AnyIn(<<"drink", "beverage", "water", "juice", "soda", "coke", "cola">>, food)
         THEN "beverage"
    ELSE IF RGt(calories_per_100g, RInt(800)) THEN "oil"
    ELSE IF RGt(calories_per_100g, RInt(300)) THEN "meat"
    ELSE IF RGt(calories_per_100g, RInt(200)) THEN "grain"
    ELSE IF RLt(calories_per_100g, RInt(30)) THEN "vegetable"
    ELSE "unknown"
    IN  category(Lower(food_name))

\* the default ceiling for every category
_get_reasonable_max_factor_default(food_category) == 10

\* _get_reasonable_max_factor(food_category)
_get_reasonable_max_factor(food_category) ==
    LET max_factors == [meat |-> 5, grain |-> 8, vegetable |-> 10, fruit |-> 6,
                        dairy |-> 8, oil |-> 2, beverage |-> 15, unknown |-> 10]
    IN  IF food_category \in DOMAIN max_factors THEN max_factors[food_category] ELSE 10

\* reasonable_calorie_ranges.get(food_category, reasonable_calorie_ranges["unknown"])
calorie_range(food_category) ==
    LET reasonable_calorie_ranges ==
            [meat |-> <<100, 300>>, grain |-> <<100, 200>>, vegetable |-> <<20, 80>>,
             fruit |-> <<40, 100>>, dairy |-> <<50, 400>>, oil |-> <<800, 900>>,
             beverage |-> <<0, 50>>, unknown |-> <<50, 300>>]
    IN  IF food_category \in DOMAIN reasonable_calorie_ranges
        THEN reasonable_calorie_ranges[food_category]
        ELSE reasonable_calorie_ranges["unknown"]

-----------------------------------------------------------------------------
(* NutritionPipeline._generic_nutrition_estimate                           *)

\* every field of the per-100g record kept in the result, not the four
\* nutrition fields alone
Scaled_every_field(per100, factor) ==
    [f \in DOMAIN per100 |->
        IF f \in {"calories", "protein", "fat", "carbs"}
        THEN Round2(RMul(per100[f], factor)) ELSE per100[f]]

\* the nutrition record {calories, protein, fat, carbs} of per-100g values
\* times a factor, each field rounded to 2 decimals
Scaled(per100, factor) ==
    Nutr(Round2(RMul(per100.calories, factor)), Round2(RMul(per100.protein, factor)),
         Round2(RMul(per100.fat, factor)), Round2(RMul(per100.carbs, factor)))

\* the per-100g profile of the first matching keyword group
generic_profile(food_name) ==
    LET profile(food) ==
    IF AnyIn(<<"chicken", "beef", "pork", "fish", "meat">>, food)
    THEN Nutr(RInt(180), RInt(25), RInt(10), RInt(0))
    ELSE IF AnyIn(<<"rice", "pasta", "noodle", "bread">>, food)
    THEN Nutr(RInt(130), RInt(4), RInt(1), RInt(25))
    ELSE IF AnyIn(<<"vegetable", "carrot", "broccoli", "spinach">>, food)
    THEN Nutr(RInt(30), RInt(2), R(3, 10), RInt(6))
    ELSE IF AnyIn(<<"fruit", "apple", "orange", "banana">>, food)
    THEN Nutr(RInt(60), R(8, 10), R(2, 10), RInt(15))
    ELSE IF AnyIn(<<"cheese", "milk", "yogurt", "cream", "dairy">>, food)
    THEN Nutr(RInt(130), RInt(7), RInt(9), RInt(5))
    ELSE Nutr(RInt(100), RInt(5), RInt(5), RInt(10))
    IN  profile(Lower(food_name))

\* the estimate without the ceiling of the factor
_generic_nutrition_estimate_unclamped(food_name, factor) ==
    Scaled(generic_profile(food_name), factor)

\* _generic_nutrition_estimate(food_name, factor)
_generic_nutrition_estimate(food_name, factor) ==
    Scaled(generic_profile(food_name), RMin(factor, RInt(8)))

-----------------------------------------------------------------------------
(* NutritionPipeline.get_food_nutrition                                    *)

\* U+5757, the second character of the alias 冰块.  A string of a module
\* holds a character beyond U+00FF only when its low byte is 0x80 or more,
\* which U+5757 is not, so the model writes it as the ideograph U+57D7
\* wherever it stands: in this model U+57D7 denotes U+5757, and U+57D7 as
\* itself is not a character of the model.  lower(), strip(), split(), the
\* classes of the regular expressions and LIKE treat the two alike.
U_5757 == "埗"

\* the five ice aliases of line 281
IceAliases == {"ice", "ice cube", "ice cubes", "冰", "冰" \o U_5757}

\* key == food or key in food or food in key
KeyMatches(key, food) == key = food \/ In(key, food) \/ In(food, key)

\* the index in self.standard_nutrition of the first entry the loop matches,
\* 0 when the loop ends without a match
FirstMatch(std, food) ==
    IF \E i \in 1..Len(std) : KeyMatches(std[i].key, food)
    THEN CHOOSE i \in 1..Len(std) :
            /\ KeyMatches(std[i].key, food)
            /\ \A j \in 1..(i - 1) : ~KeyMatches(std[j].key, food)
    ELSE 0

\* the cola rule without its one-can default and without its cap
standard_factor_no_can(food, unit, factor) ==
    IF In("mac", food) /\ In("cheese", food) /\ ~(In("cola", food) \/ In("coke", food))
    THEN IF unit = "" THEN R(25, 10) ELSE factor
    ELSE factor

\* the factor applied to a matched entry of self.standard_nutrition
standard_factor(food, unit, factor) ==
    IF In("cola", food) \/ In("coke", food) THEN
        LET capped(f) == IF RGt(f, RInt(10)) THEN RMin(f, RInt(10)) ELSE f
        IN  capped(IF unit = "" THEN R(33, 10) ELSE factor)
    ELSE IF In("mac", food) /\ In("cheese", food) THEN
        IF unit = "" THEN R(25, 10) ELSE factor
    ELSE factor

\* the adjusted values with the factor held at 10
usda_adjusted_capped(usda_data, factor, adjusted_calories, adjustment_ratio) ==
    [line |-> 328,
     value |-> Nutr(Round2(RMul(adjusted_calories, RMin(factor, RInt(10)))),
                    Round2(RMul(RMul(usda_data.protein, adjustment_ratio),
                                RMin(factor, RInt(10)))),
                    Round2(RMul(RMul(usda_data.fat, adjustment_ratio),
                                RMin(factor, RInt(10)))),
                    Round2(RMul(RMul(usda_data.carbs, adjustment_ratio),
                                RMin(factor, RInt(10)))))]

\* lines 326-333: the calories replaced by the middle of the category's range
usda_adjusted(usda_data, factor, adjusted_calories, adjustment_ratio) ==
    [line |-> 328,
     value |-> Nutr(Round2(RMul(adjusted_calories, factor)),
                    Round2(RMul(RMul(usda_data.protein, adjustment_ratio), factor)),
                    Round2(RMul(RMul(usda_data.fat, adjustment_ratio), factor)),
                    Round2(RMul(RMul(usda_data.carbs, adjustment_ratio), factor)))]

\* lines 325-342: the test of api_calories against the category's range
usda_in_range(usda_data, factor, food_category, range) ==
    IF \/ RLt(usda_data.calories, R(range[1], 2))
       \/ RGt(usda_data.calories, RInt(range[2] * 2))
    THEN usda_adjusted(usda_data, factor, R(range[1] + range[2], 2),
                       RDiv(R(range[1] + range[2], 2), RMax(usda_data.calories, RInt(1))))
    ELSE [line |-> 337,
          value |-> Scaled(usda_data,
                           RMin(factor, RInt(_get_reasonable_max_factor(food_category))))]

\* lines 314-342 for the category the food was given
usda_in_category(usda_data, factor, food_category) ==
    usda_in_range(usda_data, factor, food_category, calorie_range(food_category))

\* the result computed from the data the external lookup returned
usda_nutrition(food, usda_data, factor) ==
    usda_in_category(usda_data, factor, _identify_food_category(food, usda_data.calories))

\* a value returned by get_food_nutrition, or the exception that leaves it.
\* exc: the exception ("" when it returns); value: the returned record; line:
\* the source line of the return statement taken; calls: the collaborators
\* called, in order.
Returned(value, line, calls) == [exc |-> "", value |-> value, line |-> line, calls |-> calls]

\* lines 312-341: float() of the four values of the data the lookup returned
usda_floats(usda_data) ==
    [f \in {"calories", "protein", "fat", "carbs"} |-> float_of(usda_data[f])]

\* the four floats, where no float() raises
usda_values(floats) ==
    Nutr(floats.calories.value, floats.protein.value, floats.fat.value, floats.carbs.value)

\* the exception of the first float() that raises, in the order the code
\* converts: calories, protein, fat, carbs
usda_float_exc(floats) ==
    IF floats.calories.exc # "" THEN floats.calories.exc
    ELSE IF floats.protein.exc # "" THEN floats.protein.exc
    ELSE IF floats.fat.exc # "" THEN floats.fat.exc
    ELSE floats.carbs.exc

\* lines 310-343 for the floats of the data and the result r computed from
\* them: the exception of search_food leaves at line 310, that of
\* float(calories) at line 312 and that of another float() in the return
\* statement
get_food_nutrition_converted(food, factor, usda, floats, r) ==
    IF usda.exc # ""
    THEN [exc |-> usda.exc, value |-> NoNutrition, line |-> 310, calls |-> <<"search_food">>]
    ELSE IF ~usda.found
    THEN Returned(_generic_nutrition_estimate(food, factor), 343,
                  <<"search_food", "_generic_nutrition_estimate">>)
    ELSE IF usda_float_exc(floats) # ""
    THEN [exc |-> usda_float_exc(floats), value |-> NoNutrition,
          line |-> IF floats.calories.exc # "" THEN 312 ELSE r.line,
          calls |-> <<"search_food">>]
    ELSE Returned(r.value, r.line, <<"search_food">>)

\* lines 310-343 for the floats of the data
get_food_nutrition_floats(food, factor, usda, floats) ==
    get_food_nutrition_converted(food, factor, usda, floats,
                                 usda_nutrition(food, usda_values(floats), factor))

\* lines 310-343: the food is in no table and the external lookup answered
get_food_nutrition_looked_up(food, factor, usda) ==
    get_food_nutrition_floats(food, factor, usda, usda_floats(usda.data))

\* the external lookup consulted before the known-food table
get_food_nutrition_resolved_lookup_first(std, food, unit, factor, hit, usda) ==
    IF food \in IceAliases
    THEN Returned(Nutr(RInt(0), RInt(0), RInt(0), RInt(0)), 282, <<>>)
    ELSE IF hit # 0 /\ ~(usda.exc = "" /\ usda.found)
    THEN Returned(Scaled(std[hit], standard_factor(food, unit, factor)), 303,
                  <<"search_food">>)
    ELSE get_food_nutrition_looked_up(food, factor, usda)

\* lines 281-343 for the cleaned name, the factor, the first matching table
\* entry (hit) and the answer of the lookup (usda)
get_food_nutrition_resolved(std, food, unit, factor, hit, usda) ==
    IF food \in IceAliases
    THEN Returned(Nutr(RInt(0), RInt(0), RInt(0), RInt(0)), 282, <<>>)
    ELSE IF hit # 0
    THEN Returned(Scaled(std[hit], standard_factor(food, unit, factor)), 303, <<>>)
    ELSE get_food_nutrition_looked_up(food, factor, usda)

\* lines 284-290: grams / 100.0
get_food_nutrition_factor(portion, amount, unit) ==
    RDiv(IF unit # "" THEN convert_to_grams(portion, amount, unit)
         ELSE RMul(amount, RInt(100)),
         RInt(100))

\* lines 281-343 for food = food_name.lower().strip()
get_food_nutrition_named(std, portion, food, amount, unit, resp) ==
    get_food_nutrition_resolved(std, food, unit,
                                get_food_nutrition_factor(portion, amount, unit),
                                FirstMatch(std, food), search_food(resp))

\* get_food_nutrition(food_name, amount, unit) with resp the answer of the
\* external service
get_food_nutrition(std, portion, food_name, amount, unit, resp) ==
    get_food_nutrition_named(std, portion, Strip(Lower(food_name)), amount, unit, resp)

-----------------------------------------------------------------------------
(* NutritionPipeline.parse_ingredient                                      *)

\* the character class [\d\/\.\s] of the pattern
IsQtyChar(c) == IsDigit(c) \/ c = "/" \/ c = "." \/ IsSpace(c)

RECURSIVE Split(_)
\* str.split(): the maximal runs of characters that are not whitespace
Split(s) ==
    LET cut(t, n) == <<SubSeq(t, 1, n)>> \o Split(SubSeq(t, n + 1, Len(t)))
        words(t) == IF Len(t) = 0 THEN <<>>
                    ELSE cut(t, RunLength(LAMBDA c : ~IsSpace(c), t, 1))
    IN  words(LStrip(s))

\* what one token of the numeric segment adds to total_qty: its value, or 1.0
\* when the try block raises (a second "/", a float that does not parse, a
\* zero denominator)
PartValue(part) ==
    LET quotient(after, num, denom) ==
            IF ~In("/", after) /\ num.ok /\ denom.ok /\ denom.value.n # 0
            THEN RDiv(num.value, denom.value)
            ELSE RInt(1)
        divided(before, after) == quotient(after, ParseFloat(before), ParseFloat(after))
        \* slash: the index of the first "/"
        split_at(slash) ==
            divided(SubSeq(part, 1, slash - 1), SubSeq(part, slash + 1, Len(part)))
        plain(v) == IF v.ok THEN v.value ELSE RInt(1)
    IN  IF In("/", part)
        THEN split_at(RunLength(LAMBDA c : c # "/", part, 1) + 1)
        ELSE plain(ParseFloat(part))

RECURSIVE SumParts(_)
SumParts(parts) ==
    IF Len(parts) = 0 THEN RInt(0)
    ELSE RAdd(SumParts(SubSeq(parts, 1, Len(parts) - 1)), PartValue(parts[Len(parts)]))

\* groups 1 and 2 of the pattern end before s[i], where \s+ takes the whole
\* run of whitespace; (.*)$ has to take the rest, from s[t] on.  The dot
\* takes no line feed and $ stands at the end of s or before a line feed that
\* ends s, so the rest may hold no line feed but a last one, which group 3
\* leaves out.  A pattern that fails here fails for every shorter group 1 and
\* every shorter \s+ as well: their rest holds the same line feed.
PatternGroups(s, k, j, t) ==
    IF \E p \in t..(Len(s) - 1) : CharAt(s, p) = "\n"
    THEN [matched |-> FALSE, g1 |-> "", g2 |-> "", g3 |-> ""]
    ELSE [matched |-> TRUE, g1 |-> SubSeq(s, 1, k), g2 |-> SubSeq(s, k + 1, k + j),
          g3 |-> SubSeq(s, t, IF t <= Len(s) /\ CharAt(s, Len(s)) = "\n"
                              THEN Len(s) - 1 ELSE Len(s))]

\* the match of ^([\d\/\.\s]+)([a-zA-Z]+)?\s+(.*)$ on s, as the backtracking
\* matcher finds it: group 1 as long as possible, then group 2 as long as
\* possible.  With group 1 at its longest the next character is no
\* whitespace, so group 2 must be the whole run of letters and whitespace
\* must follow it; with a shorter group 1 group 2 is absent and whitespace
\* must follow group 1.
PatternMatch(s) ==
    LET after(k, j) ==
            PatternGroups(s, k, j, k + j + 1 + RunLength(IsSpace, s, k + j + 1))
        groups(n1, n2, shorter) ==
            IF n1 >= 1 /\ n2 >= 1 /\ n1 + n2 < Len(s) /\ IsSpace(CharAt(s, n1 + n2 + 1))
            THEN after(n1, n2)
            ELSE IF shorter # {}
            THEN after(CHOOSE k \in shorter : \A j \in shorter : j <= k, 0)
            ELSE [matched |-> FALSE, g1 |-> "", g2 |-> "", g3 |-> ""]
        quantity(n1) ==
            groups(n1, RunLength(IsLetter, s, n1 + 1),
                   {k \in 1..(n1 - 1) : IsSpace(CharAt(s, k + 1))})
    IN  quantity(RunLength(IsQtyChar, s, 1))

\* parse_ingredient returning the unit and the food name as they are written
parse_ingredient_keeps_case(ingredient_str) ==
    LET parsed(m) ==
            IF m.matched
            THEN [qty |-> SumParts(Split(Strip(m.g1))), unit |-> m.g2,
                  food_name |-> Strip(m.g3)]
            ELSE [qty |-> RInt(1), unit |-> "", food_name |-> ingredient_str]
    IN  parsed(PatternMatch(Strip(ingredient_str)))

\* parse_ingredient(ingredient_str): (quantity, unit, food name)
parse_ingredient(ingredient_str) ==
    LET parsed(m) ==
            IF m.matched
            THEN [qty |-> SumParts(Split(Strip(m.g1))), unit |-> Lower(m.g2),
                  food_name |-> Strip(Lower(m.g3))]
            ELSE [qty |-> RInt(1), unit |-> "", food_name |-> Lower(ingredient_str)]
    IN  parsed(PatternMatch(Strip(ingredient_str)))

-----------------------------------------------------------------------------
(* NutritionPipeline._analyze_ingredients_list                             *)

\* the default portion for every dish
dish_portion_default(dish_name_lower) == R(25, 10)

\* the portion of a dish whose name matches self.standard_nutrition
dish_portion(dish_name_lower) ==
    IF In("mac", dish_name_lower) /\ In("cheese", dish_name_lower) THEN RInt(3)
    ELSE IF In("curry", dish_name_lower) THEN RInt(4)
    ELSE IF In("coke", dish_name_lower) \/ In("cola", dish_name_lower) THEN R(33, 10)
    ELSE R(25, 10)

\* the default ceiling for every dish
reasonable_upper_limit_default(dish_name_lower) == 1200

\* reasonable_upper_limit: the calorie ceiling of the dish type
reasonable_upper_limit(dish_name_lower) ==
    IF In("curry", dish_name_lower) THEN 900
    ELSE IF In("mac", dish_name_lower) /\ In("cheese", dish_name_lower) THEN 700
    ELSE IF In("salad", dish_name_lower) THEN 500
    ELSE IF In("soup", dish_name_lower) THEN 400
    ELSE 1200

\* the ceiling test without its factor 2
exceeds_limit_once(total_cal, limit) == RGt(total_cal, RInt(limit))

\* total_cal > reasonable_upper_limit * 2
exceeds_limit(total_cal, limit) == RGt(total_cal, RInt(limit * 2))

\* one record of details
Detail(food_name, quantity, unit, nutr) ==
    [food_name |-> food_name, quantity |-> quantity, unit |-> unit,
     calories |-> nutr.calories, protein |-> nutr.protein, fat |-> nutr.fat,
     carbs |-> nutr.carbs]

\* the rescaling of one record of details that forgets its fat
rescale_item_but_fat(item, adjustment_factor) ==
    [item EXCEPT !.calories = RMul(@, adjustment_factor),
                 !.protein  = RMul(@, adjustment_factor),
                 !.carbs    = RMul(@, adjustment_factor)]

\* the body of the loop that rescales the records of details
rescale_item(item, adjustment_factor) ==
    [item EXCEPT !.calories = RMul(@, adjustment_factor),
                 !.protein  = RMul(@, adjustment_factor),
                 !.fat      = RMul(@, adjustment_factor),
                 !.carbs    = RMul(@, adjustment_factor)]

RECURSIVE SumField(_, _)
\* the running total of one field over the records of details
SumField(details, f) ==
    IF Len(details) = 0 THEN RInt(0)
    ELSE RAdd(SumField(SubSeq(details, 1, Len(details) - 1), f), details[Len(details)][f])

\* lines 433-446: the record appended for the parsed ingredient p whose
\* lookup gave nutr, after the earlier iterations gave before
analyze_loop_appended(before, p, nutr) ==
    IF before.exc # "" THEN before
    ELSE IF nutr.exc # ""
    THEN [exc |-> nutr.exc, details |-> before.details, calls |-> before.calls \o nutr.calls]
    ELSE [exc |-> "",
          details |-> Append(before.details,
                             Detail(p.food_name, Round2(p.qty), p.unit, nutr.value)),
          calls |-> before.calls \o nutr.calls]

\* lines 432-446: one iteration, for the parsed ingredient p
analyze_loop_step(std, portion, resp, before, p) ==
    analyze_loop_appended(before, p,
                          get_food_nutrition(std, portion, p.food_name, p.qty, p.unit, resp))

RECURSIVE analyze_loop(_, _, _, _)
\* the loop over ing_list: parse each ingredient, look its nutrition up and
\* append a record to details; an exception of get_food_nutrition ends it
analyze_loop(std, portion, ing_list, resp) ==
    IF Len(ing_list) = 0 THEN [exc |-> "", details |-> <<>>, calls |-> <<>>]
    ELSE analyze_loop_step(std, portion, resp,
                           analyze_loop(std, portion, SubSeq(ing_list, 1, Len(ing_list) - 1),
                                        resp),
                           parse_ingredient(ing_list[Len(ing_list)]))

\* a value returned by _analyze_ingredients_list, or the exception that
\* leaves it.  line is the source line of the return statement taken,
\* rescaled tells whether the ceiling applied.
DishAnalysis(exc, dish_name, ingredients, total_nutrition, line, rescaled, calls) ==
    [exc |-> exc, type |-> "dish", dish_name |-> dish_name, ingredients |-> ingredients,
     total_nutrition |-> total_nutrition, line |-> line, rescaled |-> rescaled,
     calls |-> calls]

\* lines 410-429: the single record of a dish found in self.standard_nutrition
analyze_simplified(dish_name, key, nutr) ==
    DishAnalysis("", dish_name, <<Detail(key, RInt(1), "serving", nutr)>>, nutr, 419,
                 FALSE, <<>>)

\* lines 460-481: every record and every total but the calories multiplied
\* by adjustment_factor
analyze_rescaled(dish_name, loop, limit, total_pro, total_fat, total_carb, adjustment_factor) ==
    DishAnalysis("", dish_name,
                 [i \in 1..Len(loop.details) |->
                     rescale_item(loop.details[i], adjustment_factor)],
                 Nutr(Round2(RInt(limit)), Round2(RMul(total_pro, adjustment_factor)),
                      Round2(RMul(total_fat, adjustment_factor)),
                      Round2(RMul(total_carb, adjustment_factor))),
                 471, TRUE, loop.calls)

\* lines 459-481: the ceiling test on the totals of the loop
analyze_checked(dish_name, loop, limit, total_cal, total_pro, total_fat, total_carb) ==
    IF exceeds_limit(total_cal, limit)
    THEN analyze_rescaled(dish_name, loop, limit, total_pro, total_fat, total_carb,
                          RDiv(RInt(limit), total_cal))
    ELSE DishAnalysis("", dish_name, loop.details,
                      Nutr(Round2(total_cal), Round2(total_pro), Round2(total_fat),
                           Round2(total_carb)),
                      471, FALSE, loop.calls)

\* lines 431-481: after the loop over ing_list
analyze_summed(dish_name, dish_name_lower, loop) ==
    IF loop.exc # ""
    THEN DishAnalysis(loop.exc, dish_name, <<>>, NoNutrition, 433, FALSE, loop.calls)
    ELSE analyze_checked(dish_name, loop, reasonable_upper_limit(dish_name_lower),
                         SumField(loop.details, "calories"),
                         SumField(loop.details, "protein"),
                         SumField(loop.details, "fat"), SumField(loop.details, "carbs"))

\* lines 399-481: hit is the first key of self.standard_nutrition the dish
\* name matches, 0 for none
analyze_matched(std, portion, ing_list, dish_name, resp, dish_name_lower, hit) ==
    IF hit # 0
    THEN analyze_simplified(dish_name, std[hit].key,
                            Scaled(std[hit], dish_portion(dish_name_lower)))
    ELSE analyze_summed(dish_name, dish_name_lower,
                        analyze_loop(std, portion, ing_list, resp))

\* lines 399-481 for dish_name_lower = dish_name.lower()
analyze_named(std, portion, ing_list, dish_name, resp, dish_name_lower) ==
    analyze_matched(std, portion, ing_list, dish_name, resp, dish_name_lower,
                    FirstMatch(std, dish_name_lower))

\* _analyze_ingredients_list(ing_list, dish_name)
_analyze_ingredients_list(std, portion, ing_list, dish_name, resp) ==
    analyze_named(std, portion, ing_list, dish_name, resp, Lower(dish_name))

-----------------------------------------------------------------------------
(* NERFoodExtractor (src/models/ner_extraction.py).  The answer of the     *)
(* spaCy model for a text is the sequence of its entities, each a record   *)
(* [text, label].                                                          *)

\* self.time_markers
TimeMarkers ==
    <<"today", "yesterday", "tomorrow", "morning", "evening", "night", "afternoon",
      "last night", "this morning", "now", "later">>

\* lines 33-34: a leading marker removed
clean_leading(text, marker) ==
    IF StartsWith(text, marker \o " ") THEN Replace(text, marker \o " ") ELSE text

\* lines 30-34: the body of the loop for one marker
clean_marker(text, marker) ==
    clean_leading(IF EndsWith(text, " " \o marker) THEN Replace(text, " " \o marker)
                  ELSE text,
                  marker)

RECURSIVE clean_markers(_, _)
\* the loop of clean_entity_text from the i-th marker on
clean_markers(text, i) ==
    IF i > Len(TimeMarkers) THEN text
    ELSE clean_markers(clean_marker(text, TimeMarkers[i]), i + 1)

\* clean_entity_text(text)
clean_entity_text(text) == clean_markers(Strip(Lower(text)), 1)

\* the character class \s
IsBlank(c) == IsSpace(c)
\* the character class [a-zA-Z\s]
IsNameChar(c) == IsLetter(c) \/ IsSpace(c)

\* the index after a number whose integer digits end before s[e]
FractionEnd(s, e, m) == IF m > 0 THEN e + 1 + m ELSE e

\* the index after the digits \d+ at s[i] and the fraction \.\d+ if it follows
IntegerEnd(s, e) ==
    FractionEnd(s, e, IF At(s, e) = "." THEN RunLength(IsDigit, s, e + 1) ELSE 0)

\* the index after the match of \d+(?:\.\d+)? at s[i]
NumberEnd(s, i) == IntegerEnd(s, i + RunLength(IsDigit, s, i))

\* k if it is an index of s, else 0
IndexOrZero(s, k) == IF k <= Len(s) THEN k ELSE 0

\* the index of the first digit of s at or after i, 0 if there is none
FirstDigit(s, i) == IndexOrZero(s, i + RunLength(LAMBDA c : ~IsDigit(c), s, i))

\* the part of s before the first separator at or after s[i]
UntilChar(s, c, i) == SubSeq(s, i, i + RunLength(LAMBDA x : x # c, s, i) - 1)

\* the division of line 139, of the floats of the first two parts of the
\* split at the slashes: 1.0 where a part is no float or the divisor is 0.0
fraction_of(numerator, denominator) ==
    IF numerator.ok /\ denominator.ok
       /\ ~(denominator.value.n = 0 /\ denominator.value.d # 0)
    THEN RDiv(numerator.value, denominator.value)
    ELSE RInt(1)

\* lines 135-142 for a string whose first slash is s[k]
fraction_at(s, k) ==
    IF k > Len(s) THEN RInt(1)
    ELSE fraction_of(float_str(SubSeq(s, 1, k - 1)), float_str(UntilChar(s, "/", k + 1)))

\* lines 131-142 for k the index of the first digit, 0 for none
parse_quantity_from(quantity_str, k) ==
    IF k > 0 THEN ParseFloat(SubSeq(quantity_str, k, NumberEnd(quantity_str, k) - 1)).value
    ELSE fraction_at(quantity_str, 1 + RunLength(LAMBDA c : c # "/", quantity_str, 1))

\* _parse_quantity_str(quantity_str): the first number of the string; for a
\* string without a digit, the quotient of the parts around its first slash
\* where both are floats (inf or nan then, so the quotient is nan), else 1.0
_parse_quantity_str(quantity_str) ==
    parse_quantity_from(quantity_str, FirstDigit(quantity_str, 1))

FoodItem(food, quantity) == [food |-> food, quantity |-> quantity]
NoQuantity == [some |-> FALSE, value |-> RInt(1)]

RECURSIVE entity_stage(_, _, _)
\* lines 57-68: a FOOD entity whose cleaned text is clean_food
entity_food(ents, i, current_quantity, clean_food) ==
    IF Len(clean_food) < 2 THEN entity_stage(ents, i + 1, current_quantity)
    ELSE <<FoodItem(clean_food,
                    IF current_quantity.some THEN current_quantity.value ELSE RInt(1))>>
         \o entity_stage(ents, i + 1, NoQuantity)

\* the loop over doc.ents from the i-th entity on, with current_quantity
entity_stage(ents, i, current_quantity) ==
    IF i > Len(ents) THEN <<>>
    ELSE IF ents[i].label = "QUANTITY" THEN
        entity_stage(ents, i + 1, [some |-> TRUE, value |-> _parse_quantity_str(ents[i].text)])
    ELSE IF ents[i].label = "FOOD" THEN
        entity_food(ents, i, current_quantity, clean_entity_text(ents[i].text))
    ELSE entity_stage(ents, i + 1, current_quantity)

-----------------------------------------------------------------------------
(* The regex stage of extract_food_with_ner.  Both patterns share the unit *)
(* alternation cups?|tbsps?|tsps?|ounces?|oz|pounds?|lbs?|grams?|g|        *)
(* kilograms?|kg and are matched ignoring case.                            *)

UnitWords == <<"cup", "tbsp", "tsp", "ounce", "oz", "pound", "lb", "gram", "g", "kilogram", "kg">>
UnitPlural == <<TRUE, TRUE, TRUE, TRUE, FALSE, TRUE, TRUE, TRUE, FALSE, TRUE, FALSE>>

\* the alternation matches the whole word
IsUnitWord(word) ==
    \E i \in 1..Len(UnitWords) :
        word = UnitWords[i] \/ (UnitPlural[i] /\ word = UnitWords[i] \o "s")

\* the length of the i-th unit word with its plural s if l has it
UnitLength(l, i) ==
    Len(UnitWords[i])
    + (IF UnitPlural[i] /\ At(l, Len(UnitWords[i]) + 1) = "s" THEN 1 ELSE 0)

\* the length of the first of the alternatives hits, 0 when there is none
FirstUnitLength(l, hits) ==
    IF hits = {} THEN 0
    ELSE UnitLength(l, CHOOSE i \in hits : \A j \in hits : i <= j)

\* the alternatives that are a prefix of l
UnitPrefixes(l) == FirstUnitLength(l, {i \in 1..Len(UnitWords) : StartsWith(l, UnitWords[i])})

\* the length the optional alternation consumes at the start of s when
\* nothing has to follow it: the first alternative that is a prefix, with
\* its plural s if it is there
UnitPrefixLength(s) == UnitPrefixes(Lower(s))

\* group 2 of the first pattern from t[q] on: w2 blanks lead a run of r
\* letters and blanks
P1Name(t, s, b, isof, q, w2, r) ==
    [ok  |-> isof /\ w2 >= 1 /\ r >= 2,
     g1  |-> SubSeq(t, s, b - 1),
     g2  |-> IF r > w2 THEN SubSeq(t, q + w2, q + r - 1) ELSE At(t, q + r - 1),
     end |-> q + r]

\* the word "of" at t[ofpos] (ofpos = 0: no place for it)
P1Of(t, s, b, ofpos) ==
    P1Name(t, s, b,
           ofpos > 0 /\ ofpos + 1 <= Len(t) /\ Lower(SubSeq(t, ofpos, ofpos + 1)) = "of",
           ofpos + 2, RunLength(IsBlank, t, ofpos + 2), RunLength(IsNameChar, t, ofpos + 2))

\* the optional unit: the word at t[u] of length word, followed by w1 blanks
P1Unit(t, s, b, w0, u, word, w1) ==
    P1Of(t, s, b,
         IF IsUnitWord(Lower(SubSeq(t, u, u + word - 1))) /\ w1 >= 1 THEN u + word + w1
         ELSE IF w0 >= 1 THEN u ELSE 0)

\* the word after the number and its w0 blanks
P1Word(t, s, b, w0, word) ==
    P1Unit(t, s, b, w0, b + w0, word, RunLength(IsBlank, t, b + w0 + word))

\* the blanks after the number, which ends before t[b]
P1Blanks(t, s, b, w0) == P1Word(t, s, b, w0, RunLength(IsLetter, t, b + w0))

\* the number of the first pattern ends before t[b]
P1Number(t, s, b) == P1Blanks(t, s, b, RunLength(IsBlank, t, b))

\* the match of (\d+(?:\.\d+)?)\s*(?:unit)?\s+of\s+([a-zA-Z\s]+) starting at
\* the digit t[s].  The number takes every digit; a unit, if present, is the
\* whole word after the number and blanks follow it; "of" is a whole word
\* with a blank before and after; group 2 is the run of letters and blanks
\* after these blanks, or one blank when no letter follows two blanks.
P1At(t, s) == P1Number(t, s, NumberEnd(t, s))

\* the optional unit of the second pattern after the number's end ne and w
\* blanks
P2Unit(t, s, r, e, ne, w) ==
    [ok  |-> r >= 2 /\ IsSpace(At(t, e - 1)) /\ IsDigit(At(t, e)),
     g1  |-> SubSeq(t, s, e - 2),
     g2  |-> SubSeq(t, e, ne - 1),
     end |-> ne + w + UnitPrefixLength(SubSeq(t, ne + w, Len(t)))]

\* the number of the second pattern, from t[e] to before t[ne]
P2Number(t, s, r, e, ne) == P2Unit(t, s, r, e, ne, RunLength(IsBlank, t, ne))

\* the run of r letters and blanks at t[s]
P2Name(t, s, r) == P2Number(t, s, r, s + r, NumberEnd(t, s + r))

\* the match of ([a-zA-Z\s]+)\s+(\d+(?:\.\d+)?)\s*(?:unit)? starting at t[s]:
\* the run of letters and blanks at s ends in a blank before a digit; group 1
\* is the run without its last blank
P2At(t, s) == P2Name(t, s, RunLength(IsNameChar, t, s))

RECURSIVE finditer(_, _, _)
\* re.finditer: the successive non-overlapping matches from position p on
finditer(MatchAt(_, _), t, p) ==
    IF p > Len(t) THEN <<>>
    ELSE LET m == MatchAt(t, p)
         IN  IF m.ok THEN <<m>> \o finditer(MatchAt, t, m.end)
             ELSE finditer(MatchAt, t, p + 1)

\* _is_float(s), lines 144-149
_is_float(s) == float_str(s).ok

\* lines 88-91: the entity of one match, if its cleaned name is long enough
regex_entity(food, qty) == IF Len(food) >= 2 THEN <<FoodItem(food, qty)>> ELSE <<>>

\* lines 81-91 for one match, given whether its group 1 is a float (a
\* group for which isdigit() holds is one)
regex_groups(m, g1_is_float) ==
    regex_entity(clean_entity_text(Strip(Lower(IF g1_is_float THEN m.g2 ELSE m.g1))),
                 IF g1_is_float THEN float_str(m.g1).value
                 ELSE IF _is_float(m.g2) THEN float_str(m.g2).value ELSE RInt(1))

RECURSIVE regex_entities(_)
\* the food entities of a sequence of matches (lines 80-91)
regex_entities(matches) ==
    IF Len(matches) = 0 THEN <<>>
    ELSE regex_groups(Head(matches), _is_float(Head(matches).g1))
         \o regex_entities(Tail(matches))

\* the first pattern starts with a digit
P1Try(t, s) ==
    IF IsDigit(At(t, s)) THEN P1At(t, s) ELSE [ok |-> FALSE, g1 |-> "", g2 |-> "", end |-> 0]

\* lines 71-91: both patterns over the text
regex_stage(text) ==
    regex_entities(finditer(P1Try, text, 1)) \o regex_entities(finditer(P2At, text, 1))

-----------------------------------------------------------------------------
(* The word scan, the deduplication and extract_food_with_ner.             *)

\* common_foods, in list order
CommonFoods ==
    <<"apple", "banana", "chicken", "rice", "pasta", "eggs", "milk", "beef", "pork", "fish",
      "bread", "cheese", "yogurt", "salad", "pizza", "burger", "sandwich", "soup", "stew",
      "curry", "noodles", "steak">>

\* x in seq
Member(x, seq) == \E i \in 1..Len(seq) : seq[i] = x

RECURSIVE word_stage(_, _)
\* lines 100-103: the common foods that are words of the text, in list order
word_stage(words, i) ==
    IF i > Len(CommonFoods) THEN <<>>
    ELSE (IF Member(CommonFoods[i], words) THEN <<FoodItem(CommonFoods[i], RInt(1))>> ELSE <<>>)
         \o word_stage(words, i + 1)

\* food_dict after one more entity: a new key is added last, a known key
\* keeps its place and the larger quantity
dict_put_max(food_dict, entity) ==
    IF \E k \in 1..Len(food_dict) : food_dict[k].food = entity.food
    THEN [k \in 1..Len(food_dict) |->
             IF food_dict[k].food = entity.food
             THEN FoodItem(entity.food, RMax(food_dict[k].quantity, entity.quantity))
             ELSE food_dict[k]]
    ELSE Append(food_dict, entity)

RECURSIVE dedupe(_, _)
\* lines 106-118: time markers dropped, duplicates merged
dedupe(food_entities, food_dict) ==
    IF Len(food_entities) = 0 THEN food_dict
    ELSE dedupe(Tail(food_entities),
                IF Member(Head(food_entities).food, TimeMarkers) THEN food_dict
                ELSE dict_put_max(food_dict, Head(food_entities)))

\* lines 93-103: the word scan when nothing was found
ner_or_words(text, found) ==
    IF Len(found) = 0 THEN word_stage(Split(Lower(text)), 1) ELSE found

\* lines 70-91: the regex stage when no entity was found
ner_or_regex(text, found) == IF Len(found) = 0 THEN regex_stage(text) ELSE found

\* extract_food_with_ner(text), ents being the entities of self.nlp(text)
extract_food_with_ner(ents, text) ==
    dedupe(ner_or_words(text, ner_or_regex(text, entity_stage(ents, 1, NoQuantity))), <<>>)

-----------------------------------------------------------------------------
(* json.loads.  An escape \uXXXX of a string is decoded where it writes a   *)
(* character that the strings of the model hold.                           *)

Quote == "\""
JFail == [ok |-> FALSE, val |-> JLit("null"), pos |-> 0]
JOk(val, pos) == [ok |-> TRUE, val |-> val, pos |-> pos]

\* the whitespace of JSON: the blank, the tab, the line feed, the carriage
\* return
IsJsonSpace(c) == c \in {" ", "\t", "\n", "\r"}

SkipBlanks(s, i) == i + RunLength(IsJsonSpace, s, i)

\* the index after the exponent at s[e] if an e or E and digits, with a sign
\* or without, stand there, whose digits start at s[j]
ExponentEnd(s, e, j) ==
    IF At(s, e) \in {"e", "E"} /\ IsDigit(At(s, j)) THEN j + RunLength(IsDigit, s, j) ELSE e

\* the index after the fraction and the exponent of a number, e being the
\* index after its fraction
JsonFractionEnd(s, e) ==
    ExponentEnd(s, e, IF At(s, e + 1) \in {"+", "-"} THEN e + 2 ELSE e + 1)

\* the index after the JSON number whose first digit is s[i]: one 0 or digits
\* without a leading 0, then a fraction if digits follow the dot, then an
\* exponent
JsonDigitsEnd(s, i) ==
    JsonFractionEnd(s, IntegerEnd(s, i + (IF At(s, i) = "0" THEN 1
                                         ELSE RunLength(IsDigit, s, i))))

\* the index after the JSON number at s[i], which starts with a digit or
\* with a minus sign and a digit
JsonNumberEnd(s, i) == JsonDigitsEnd(s, IF At(s, i) = "-" THEN i + 1 ELSE i)

\* the characters U+0001 to U+005F and U+0061 to U+00FF, by their code
LowChars ==
    <<"", "", "", "", "", "", "", "", "\t", "\n", "", "\f", "\r",
      "", "", "", "", "", "", "", "", "", "", "", "", "",
      "", "", "", "", "", " ", "!", "\"", "#", "$", "%", "&", "'",
      "(", ")", "*", "+", ",", "-", ".", "/", "0", "1", "2", "3", "4",
      "5", "6", "7", "8", "9", ":", ";", "<", "=", ">", "?", "@", "A",
      "B", "C", "D", "E", "F", "G", "H", "I", "J", "K", "L", "M", "N",
      "O", "P", "Q", "R", "S", "T", "U", "V", "W", "X", "Y", "Z", "[",
      "\\", "]", "^", "_">>
HighChars ==
    <<"a", "b", "c", "d", "e", "f", "g", "h", "i", "j", "k", "l", "m",
      "n", "o", "p", "q", "r", "s", "t", "u", "v", "w", "x", "y", "z",
      "{", "|", "}", "~", "", "", "", "", "", "", "", "", "",
      "", "", "", "", "", "", "", "", "", "", "", "", "",
      "", "", "", "", "", "", "", "", "", "", "", " ", "¡",
      "¢", "£", "¤", "¥", "¦", "§", "¨", "©", "ª", "«", "¬", "­", "®",
      "¯", "°", "±", "²", "³", "´", "µ", "¶", "·", "¸", "¹", "º", "»",
      "¼", "½", "¾", "¿", "À", "Á", "Â", "Ã", "Ä", "Å", "Æ", "Ç", "È",
      "É", "Ê", "Ë", "Ì", "Í", "Î", "Ï", "Ð", "Ñ", "Ò", "Ó", "Ô", "Õ",
      "Ö", "×", "Ø", "Ù", "Ú", "Û", "Ü", "Ý", "Þ", "ß", "à", "á", "â",
      "ã", "ä", "å", "æ", "ç", "è", "é", "ê", "ë", "ì", "í", "î", "ï",
      "ð", "ñ", "ò", "ó", "ô", "õ", "ö", "÷", "ø", "ù", "ú", "û", "ü",
      "ý", "þ", "ÿ">>
CodeChar(code) == IF code < 96 THEN LowChars[code] ELSE HighChars[code - 96]

\* the characters below U+0020, which a JSON string holds only escaped
IsControl(c) == \E code \in 1..31 : LowChars[code] = c

HexDigits == <<"0", "1", "2", "3", "4", "5", "6", "7", "8", "9", "a", "b", "c", "d", "e", "f">>
IsHexDigit(c) == \E k \in 1..16 : HexDigits[k] = LowerChar(c)
HexValue(c) == (CHOOSE k \in 1..16 : HexDigits[k] = LowerChar(c)) - 1

\* the number four hexadecimal digits write
Hex4(h) ==
    ((HexValue(SubSeq(h, 1, 1)) * 16 + HexValue(SubSeq(h, 2, 2))) * 16
     + HexValue(SubSeq(h, 3, 3))) * 16 + HexValue(SubSeq(h, 4, 4))

\* the one-character escapes after the backslash, with the character each
\* writes
EscapeNames == <<Quote, "\\", "/", "b", "f", "n", "r", "t">>
EscapeChars == <<Quote, "\\", "/", LowChars[8], "\f", "\n", "\r", "\t">>

RECURSIVE json_value(_, _), json_elements(_, _, _), json_members(_, _, _),
          json_chars(_, _, _, _)
\* a string after the backslash at s[i], acc being its characters so far
json_escape(s, i, acc) ==
    IF \E k \in 1..8 : EscapeNames[k] = At(s, i + 1)
    THEN json_chars(s, i + 2,
                    acc \o EscapeChars[CHOOSE k \in 1..8 : EscapeNames[k] = At(s, i + 1)],
                    RunLength(LAMBDA c : c \notin {Quote, "\\"} /\ ~IsControl(c), s, i + 2))
    ELSE IF At(s, i + 1) = "u" /\ i + 5 <= Len(s)
            /\ \A k \in (i + 2)..(i + 5) : IsHexDigit(At(s, k))
    THEN json_chars(s, i + 6, acc \o CodeChar(Hex4(SubSeq(s, i + 2, i + 5))),
                    RunLength(LAMBDA c : c \notin {Quote, "\\"} /\ ~IsControl(c), s, i + 6))
    ELSE JFail

\* a string whose characters so far are acc, then the n characters from
\* s[i] on, after which a quote, a backslash, a control character or the end
\* of the text stands
json_chars(s, i, acc, n) ==
    IF At(s, i + n) = Quote THEN JOk(JStr(acc \o SubSeq(s, i, i + n - 1)), i + n + 1)
    ELSE IF At(s, i + n) = "\\" THEN json_escape(s, i + n, acc \o SubSeq(s, i, i + n - 1))
    ELSE JFail

\* the string that starts after the quote s[i]
json_string(s, i) ==
    json_chars(s, i + 1, "",
               RunLength(LAMBDA c : c \notin {Quote, "\\"} /\ ~IsControl(c), s, i + 1))

\* the number from s[i] to before s[e]
json_number(s, i, e) == JOk(JNum(float_str(SubSeq(s, i, e - 1)).value), e)

\* the array whose first element, or closing bracket, is at s[j]
json_array(s, j) ==
    IF At(s, j) = "]" THEN JOk(JArr(<<>>), j + 1) ELSE json_elements(s, j, <<>>)

\* the object whose first member, or closing brace, is at s[j]
json_object(s, j) ==
    IF At(s, j) = "}" THEN JOk(JObj(<<>>), j + 1) ELSE json_members(s, j, <<>>)

\* the constant that starts the text t at s[i]: true, false, null, and the
\* floats NaN, Infinity and -Infinity
json_constant(t, i) ==
    IF \E w \in {"true", "false", "null"} : StartsWith(t, w)
    THEN JOk(JLit(CHOOSE w \in {"true", "false", "null"} : StartsWith(t, w)),
             i + Len(CHOOSE w \in {"true", "false", "null"} : StartsWith(t, w)))
    ELSE IF StartsWith(t, "NaN") THEN JOk(JNum(Nan), i + 3)
    ELSE IF StartsWith(t, "Infinity") THEN JOk(JNum(Inf(1)), i + 8)
    ELSE IF StartsWith(t, "-Infinity") THEN JOk(JNum(Inf(-1)), i + 9)
    ELSE JFail

\* the value that starts at s[i] with the character c
json_value_at(s, i, c) ==
    IF c = Quote THEN json_string(s, i)
    ELSE IF IsDigit(c) \/ (c = "-" /\ IsDigit(At(s, i + 1)))
    THEN json_number(s, i, JsonNumberEnd(s, i))
    ELSE IF c = "[" THEN json_array(s, SkipBlanks(s, i + 1))
    ELSE IF c = "{" THEN json_object(s, SkipBlanks(s, i + 1))
    ELSE json_constant(SubSeq(s, i, Len(s)), i)

\* the value that starts at s[i]
json_value(s, i) == json_value_at(s, i, At(s, i))

\* an array after its element v, the next token being at s[j]
json_after_element(s, acc, v, j) ==
    IF ~v.ok THEN JFail
    ELSE IF At(s, j) = "," THEN json_elements(s, SkipBlanks(s, j + 1), Append(acc, v.val))
    ELSE IF At(s, j) = "]" THEN JOk(JArr(Append(acc, v.val)), j + 1)
    ELSE JFail

\* an array after its element v
json_element(s, acc, v) == json_after_element(s, acc, v, SkipBlanks(s, v.pos))

\* the rest of an array whose next element starts at s[i]
json_elements(s, i, acc) == json_element(s, acc, json_value(s, i))

\* an object after the member k: v that started at s[i], the colon being at
\* s[c] and the next token at s[j]
json_after_member(s, i, acc, k, c, v, j) ==
    IF ~(At(s, i) = Quote /\ k.ok /\ At(s, c) = ":" /\ v.ok) THEN JFail
    ELSE IF At(s, j) = "," THEN
        json_members(s, SkipBlanks(s, j + 1), Append(acc, [k |-> k.val.s, v |-> v.val]))
    ELSE IF At(s, j) = "}" THEN JOk(JObj(Append(acc, [k |-> k.val.s, v |-> v.val])), j + 1)
    ELSE JFail

\* an object after the key k and the value v of a member
json_member_value(s, i, acc, k, c, v) ==
    json_after_member(s, i, acc, k, c, v, SkipBlanks(s, v.pos))

\* an object after the key k of a member, the colon being expected at s[c]
json_member_colon(s, i, acc, k, c) ==
    json_member_value(s, i, acc, k, c, json_value(s, SkipBlanks(s, c + 1)))

\* an object after the key k of a member
json_member_key(s, i, acc, k) == json_member_colon(s, i, acc, k, SkipBlanks(s, k.pos))

\* the rest of an object whose next member starts at s[i]
json_members(s, i, acc) == json_member_key(s, i, acc, json_value(s, i))

\* the parsed text is the value v and blanks after it
json_whole(s, v) == IF v.ok /\ SkipBlanks(s, v.pos) = Len(s) + 1 THEN v ELSE JFail

\* json.loads(s): ok is FALSE where it raises JSONDecodeError
json_loads(s) == json_whole(s, json_value(s, SkipBlanks(s, 1)))

\* the text from the first "[" at content[i] to the last "]" at content[j]
array_between(content, i, j) ==
    IF i <= Len(content) /\ j > i
    THEN [found |-> TRUE, text |-> SubSeq(content, i, j)]
    ELSE [found |-> FALSE, text |-> ""]

\* the index of the last "]", 0 when there is none
last_closer(closers) ==
    IF closers = {} THEN 0 ELSE CHOOSE j \in closers : \A k \in closers : k <= j

\* re.search(r"\[.*\]", content, re.DOTALL): from the first "[" to the last "]"
array_span(content) ==
    array_between(content, 1 + RunLength(LAMBDA ch : ch # "[", content, 1),
                  last_closer({j \in 1..Len(content) : At(content, j) = "]"}))

-----------------------------------------------------------------------------
(* Dish recognition and recipe lookup of NutritionPipeline.                *)

\* self.common_dish_keywords, self.main_keywords, self.sub_keywords
CommonDishKeywords ==
    {"soup", "salad", "pizza", "burger", "sandwich", "stew", "curry", "cake", "pie", "pasta",
     "noodles", "omelet", "dumpling", "fried", "steak", "fries", "gratin", "casserole", "bake",
     "coke", "tea", "coffee"}
MainKeywords ==
    {"chicken", "beef", "pork", "fish", "egg", "shrimp", "rice", "noodles", "pasta", "milk",
     "tomato", "cheese", "penne", "turkey", "sausage", "coke", "coffee", "tea"}
SubKeywords ==
    {"salt", "pepper", "oil", "garlic", "onion", "butter", "sugar", "cream", "flour", "vinegar",
     "powder", "seasoning", "herbs", "spice", "sauce", "chilies"}

\* the FOOD entities of doc.ents, stripped and lower-cased (line 87)
food_ents(ents) ==
    LET RECURSIVE from(_)
        from(i) == IF i > Len(ents) THEN <<>>
                   ELSE (IF ents[i].label = "FOOD" THEN <<Lower(Strip(ents[i].text))>> ELSE <<>>)
                        \o from(i + 1)
    IN  from(1)

\* lines 94-96: a cleaned entity is kept when it has two characters or more
kept_ent(cleaned) == IF Len(cleaned) >= 2 THEN <<cleaned>> ELSE <<>>

\* lines 90-98: with an extractor every entity is cleaned and kept when it
\* has two characters or more; without one (method "llm") it is kept as it is
cleaned_ents(mth, names) ==
    LET RECURSIVE from(_)
        from(i) == IF i > Len(names) THEN <<>>
                   ELSE (IF mth = "llm" THEN <<names[i]>>
                         ELSE kept_ent(clean_entity_text(names[i])))
                        \o from(i + 1)
    IN  from(1)

\* the food names of a list of extracted items
FoodNames(items) == [i \in 1..Len(items) |-> items[i].food]

\* lines 100-108: the cleaned entities, else the foods of the extractor, else
\* the whole input
dish_names_of(user_input, cleaned, extracted) ==
    IF Len(cleaned) > 0 THEN cleaned
    ELSE IF Len(extracted) > 0 THEN FoodNames(extracted)
    ELSE <<Lower(Strip(user_input))>>

\* extract_dish_names(user_input), ents being the entities of self.nlp(user_input)
extract_dish_names(mth, ents, user_input) ==
    dish_names_of(user_input, cleaned_ents(mth, food_ents(ents)),
                  IF mth = "llm" THEN <<>> ELSE extract_food_with_ner(ents, user_input))

\* only a name of several words taken for a dish
is_probably_dish_by_space(dish_keywords, text) == In(" ", Lower(text))

\* is_probably_dish(text)
is_probably_dish(dish_keywords, text) ==
    In(" ", Lower(text)) \/ \E kw \in dish_keywords : In(kw, Lower(text))

\* one character as LIKE folds it (sqlite3's default, without ICU)
LikeFold(c) == IF \E i \in 1..26 : UpperChars[i] = c THEN LowerChar(c) ELSE c

RECURSIVE Like(_, _)
\* the SQLite operator s LIKE p: % is any run of characters, _ any one
\* character, and the letters A to Z match in either case; any other
\* character, a cased letter beyond U+007F too, matches itself only
Like(p, s) ==
    IF Len(p) = 0 THEN Len(s) = 0
    ELSE IF At(p, 1) = "%" THEN
        Like(SubSeq(p, 2, Len(p)), s) \/ (Len(s) > 0 /\ Like(p, SubSeq(s, 2, Len(s))))
    ELSE IF Len(s) = 0 THEN FALSE
    ELSE /\ (At(p, 1) = "_" \/ LikeFold(At(p, 1)) = LikeFold(At(s, 1)))
         /\ Like(SubSeq(p, 2, Len(p)), SubSeq(s, 2, Len(s)))

\* lines 135-141: the texts of the items of a parsed ingredients column.
\* Iterating an object yields its keys, iterating a string its characters;
\* a number, true, false or null cannot be iterated (ok is FALSE).
ingredient_texts(arr) ==
    LET RECURSIVE from(_)
        from(i) ==
            IF i > Len(arr.items) THEN <<>>
            ELSE LET item == arr.items[i]
                 IN  (IF arr.t = "obj" THEN
                          (IF \E j \in 1..(i - 1) : arr.items[j].k = item.k THEN <<>>
                           ELSE <<JStr(item.k)>>)
                      ELSE IF item.t = "obj" /\ HasKey(item, "text") THEN <<GetKey(item, "text")>>
                      ELSE IF item.t = "str" THEN <<item>>
                      ELSE <<>>)
                     \o from(i + 1)
    IN  IF arr.t \in {"arr", "obj"} THEN [ok |-> TRUE, list |-> from(1)]
        ELSE IF arr.t = "str"
        THEN [ok |-> TRUE, list |-> [i \in 1..Len(arr.s) |-> JStr(At(arr.s, i))]]
        ELSE [ok |-> FALSE, list |-> <<>>]

\* (None, None)
NoRecipe == [found |-> FALSE, title |-> "", ingredients |-> <<>>]

\* lines 138-144 for the texts of the parsed column
recipe_of_texts(row, texts) ==
    IF ~texts.ok THEN NoRecipe
    ELSE [found |-> TRUE, title |-> Lower(row.title), ingredients |-> texts.list]

\* lines 137-144 for the parsed ingredients column of the row
recipe_of_json(row, arr) ==
    IF ~arr.ok THEN NoRecipe ELSE recipe_of_texts(row, ingredient_texts(arr.val))

\* lines 135-146 for the rows the query selects: fetchone() takes the first
recipe_of_hits(db, hits) ==
    IF ~db.ok \/ hits = {} THEN NoRecipe
    ELSE recipe_of_json(db.rows[CHOOSE i \in hits : \A j \in hits : i <= j],
                        json_loads(db.rows[CHOOSE i \in hits : \A j \in hits : i <= j]
                                       .ingredients))

\* search_recipe_in_db(dish_name) on the recipes table db.rows (db.ok is
\* FALSE when the database cannot be queried): the first row whose title is
\* LIKE %dish_name%, as (title.lower(), the ingredient texts); found is
\* FALSE for (None, None)
search_recipe_in_db(db, dish_name) ==
    recipe_of_hits(db, {i \in 1..Len(db.rows) :
                           Like("%" \o dish_name \o "%", db.rows[i].title)})

-----------------------------------------------------------------------------
(* The generative collaborator.  env.mistral is a sequence of rules        *)
(* [about, exc, content]: the reply of the recipe model to a prompt about  *)
(* the dish `about` ("" stands for any dish) is `content`, or the call     *)
(* raises `exc`.  env.phi4 is the [exc, content] of the extraction model.  *)

ChatAnswer(exc, content) == [exc |-> exc, content |-> content]

\* the reply of the first of the rules hits, an empty reply without one
first_reply(rules, hits) ==
    IF hits = {} THEN ChatAnswer("", "")
    ELSE ChatAnswer(rules[CHOOSE i \in hits : \A j \in hits : i <= j].exc,
                    rules[CHOOSE i \in hits : \A j \in hits : i <= j].content)

\* ollama.chat(model="mistral", ...) for the recipe prompt of dish_name
recipe_chat(rules, dish_name) ==
    first_reply(rules, {i \in 1..Len(rules) : rules[i].about \in {"", dish_name}})

\* arr[:n]
Prefix(arr, n) == SubSeq(arr, 1, IF Len(arr) < n THEN Len(arr) ELSE n)

\* lines 164-176 for the match of the array pattern and its parsed text
recipe_of_array(answer, match, arr) ==
    IF answer.exc # "" \/ ~match.found \/ ~arr.ok THEN <<>>
    ELSE Prefix(arr.val.items, 7)

\* lines 167-173 for the match of the array pattern
recipe_of_match(answer, match) == recipe_of_array(answer, match, json_loads(match.text))

\* generate_recipe_with_llm(dish_name), given the reply of the chat: the
\* first 7 elements of the array of the reply, [] without one, [] when the
\* call or json.loads raises
generate_recipe_with_llm(answer) == recipe_of_match(answer, array_span(answer.content))

\* llm_extraction.py lines 30-39 for the match of the array pattern and its
\* parsed text
food_data_of_array(answer, match, arr) ==
    IF answer.exc # "" THEN [exc |-> answer.exc, food_data |-> <<>>]
    ELSE IF ~match.found \/ ~arr.ok THEN [exc |-> "", food_data |-> <<>>]
    ELSE [exc |-> "", food_data |-> arr.val.items]

\* llm_extraction.py line 35 for the match of the array pattern
food_data_of_match(answer, match) ==
    food_data_of_array(answer, match, json_loads(match.text))

\* FoodExtractor.extract_food_with_llm(text) of models/llm_extraction.py,
\* given the reply of the chat: an exception of the call propagates, a reply
\* without a well-formed array gives []
extract_food_with_llm(answer) == food_data_of_match(answer, array_span(answer.content))

\* the ingredients that satisfy a test, in list order
Filter(Test(_), seq) ==
    LET RECURSIVE from(_)
        from(i) == IF i > Len(seq) THEN <<>>
                   ELSE (IF Test(seq[i]) THEN <<seq[i]>> ELSE <<>>) \o from(i + 1)
    IN  from(1)

\* an ingredient is main unless it holds a secondary keyword
is_main_unless_secondary(main_kw, sub_kw, ing) ==
    ~\E sk \in sub_kw : In(sk, Lower(ing))

\* an ingredient is main if it holds a main keyword, or no secondary keyword
is_main(main_kw, sub_kw, ing) ==
    \/ \E mk \in main_kw : In(mk, Lower(ing))
    \/ ~\E sk \in sub_kw : In(sk, Lower(ing))

\* classify_ingredients(ing_list): (main_ings, sub_ings)
classify_ingredients(main_kw, sub_kw, ing_list) ==
    [main_ings |-> Filter(LAMBDA ing : is_main(main_kw, sub_kw, ing), ing_list),
     sub_ings  |-> Filter(LAMBDA ing : ~is_main(main_kw, sub_kw, ing), ing_list)]

\* float(value) of a parsed JSON value inside try/except: 1.0 when it raises
float_or(converted, default) == IF converted.exc = "" THEN converted.value ELSE default
float_or_one(value) == float_or(float_of(value), RInt(1))

\* float(x["quantity"]) inside try/except, x an item of the generative reply
item_quantity(x) ==
    IF x.t = "obj" /\ HasKey(x, "quantity") THEN float_or_one(GetKey(x, "quantity"))
    ELSE RInt(1)

\* the exception of x["food"] and of the str method called on it, "" if none
item_food_error(x) ==
    IF x.t # "obj" THEN "TypeError"
    ELSE IF ~HasKey(x, "food") THEN "KeyError"
    ELSE IF GetKey(x, "food").t # "str" THEN "AttributeError"
    ELSE ""

\* the first exception over a list of items, "" if none
first_food_error(items) ==
    LET bad == {i \in 1..Len(items) : item_food_error(items[i]) # ""}
    IN  IF bad = {} THEN ""
        ELSE item_food_error(items[CHOOSE i \in bad : \A j \in bad : i <= j])

\* the items of a generative reply as (food, quantity) records
llm_items(food_data) ==
    [i \in 1..Len(food_data) |->
        FoodItem(GetKey(food_data[i], "food").s, item_quantity(food_data[i]))]

\* merged after one more item, the last quantity of a name kept
merge_put_last(merged, x) ==
    IF \E k \in 1..Len(merged) : merged[k].food = Lower(Strip(x.food))
    THEN [k \in 1..Len(merged) |->
             IF merged[k].food = Lower(Strip(x.food))
             THEN FoodItem(merged[k].food, x.quantity) ELSE merged[k]]
    ELSE Append(merged, FoodItem(Lower(Strip(x.food)), x.quantity))

\* merged after one more item: max(merged.get(fd, 0), q) under the stripped,
\* lower-cased name
merge_put(merged, x) ==
    dict_put_max(merged, FoodItem(Lower(Strip(x.food)), RMax(RInt(0), x.quantity)))

RECURSIVE merge_all(_, _)
merge_all(items, merged) ==
    IF Len(items) = 0 THEN merged ELSE merge_all(Tail(items), merge_put(merged, Head(items)))

\* _merge_ner_llm(ner_foods, llm_foods)
_merge_ner_llm(ner_foods, llm_foods) == merge_all(llm_foods, merge_all(ner_foods, <<>>))

-----------------------------------------------------------------------------
(* NutritionPipeline._process_multiple and process_text.  A result is a    *)
(* record: type is "None", "dish", "combined", "single" or "multiple", or  *)
(* "" with exc the exception that leaves the call.  A bare dish result has *)
(* the dish as its only entry of dishes; the items of a "single" result    *)
(* and the detailed_breakdown of a "multiple" one are both under items.    *)

TextResult(exc, type, dishes, other_foods, items, total_nutrition, calls) ==
    [exc |-> exc, type |-> type, dishes |-> dishes, other_foods |-> other_foods,
     items |-> items, total_nutrition |-> total_nutrition, calls |-> calls]
Raised(exc, calls) == TextResult(exc, "", <<>>, <<>>, <<>>, NoNutrition, calls)

RECURSIVE nutrition_loop(_, _, _, _, _)
\* lines 528-546: one iteration for the item f, r being the result of its
\* get_food_nutrition call
nutrition_step(std, portion, pending, resp, acc, f, r) ==
    IF f.err # "" THEN [acc EXCEPT !.exc = f.err]
    ELSE IF r.exc # "" THEN [acc EXCEPT !.exc = r.exc, !.calls = @ \o r.calls]
    ELSE nutrition_loop(std, portion, Tail(pending), resp,
             [exc |-> "",
              details |-> Append(acc.details, Detail(f.food, f.quantity, "", r.value)),
              calls |-> acc.calls \o r.calls])

\* the get_food_nutrition calls of _process_multiple over the pending items
\* [err, food, quantity], err being the exception f["food"] raises
nutrition_loop(std, portion, pending, resp, acc) ==
    IF Len(pending) = 0 THEN acc
    ELSE nutrition_step(std, portion, pending, resp, acc, Head(pending),
                        get_food_nutrition(std, portion, Head(pending).food,
                                           Head(pending).quantity, "", resp))

\* the chat calls of the configured method
ChatCalls(mth) == IF mth = "ner" THEN <<>> ELSE <<"ollama.chat:phi4">>

\* lines 502-556: the result for the pending items, loop being the outcome
\* of their get_food_nutrition calls
process_multiple_result(pending, loop, chat) ==
    IF Len(pending) = 0
    THEN TextResult("", "None", <<>>, <<>>, <<>>, NoNutrition, chat)
    ELSE IF loop.exc # "" THEN Raised(loop.exc, loop.calls)
    ELSE IF Len(pending) = 1
    THEN TextResult("", "single", <<>>, <<>>, loop.details, NoNutrition, loop.calls)
    ELSE TextResult("", "multiple", <<>>, <<>>, loop.details,
                    Nutr(Round2(SumField(loop.details, "calories")),
                         Round2(SumField(loop.details, "protein")),
                         Round2(SumField(loop.details, "fat")),
                         Round2(SumField(loop.details, "carbs"))),
                    loop.calls)

\* lines 502-556 for the pending items
process_multiple_pending(std, portion, resp, chat, pending) ==
    process_multiple_result(pending,
                            nutrition_loop(std, portion, pending, resp,
                                           [exc |-> "", details |-> <<>>, calls |-> chat]),
                            chat)

\* the items of a generative reply, as they are (method "llm": nothing is
\* cleaned without an extractor)
llm_pending(food_data) ==
    [i \in 1..Len(food_data) |->
        [err |-> item_food_error(food_data[i]),
         food |-> IF item_food_error(food_data[i]) = ""
                  THEN GetKey(food_data[i], "food").s ELSE "",
         quantity |-> item_quantity(food_data[i])]]

\* lines 498-500: the extracted items with their names cleaned
cleaned_pending(extracted) ==
    [i \in 1..Len(extracted) |->
        [err |-> "", food |-> clean_entity_text(extracted[i].food),
         quantity |-> extracted[i].quantity]]

\* lines 488-556, n and l being the answers of the two extractors
process_multiple_extracted(mth, std, portion, resp, n, l) ==
    IF mth # "ner" /\ l.exc # "" THEN Raised(l.exc, ChatCalls(mth))
    ELSE IF mth = "hybrid" /\ first_food_error(l.food_data) # ""
    THEN Raised(first_food_error(l.food_data), ChatCalls(mth))
    ELSE process_multiple_pending(std, portion, resp, ChatCalls(mth),
             IF mth = "llm" THEN llm_pending(l.food_data)
             ELSE cleaned_pending(IF mth = "ner" THEN n
                                  ELSE _merge_ner_llm(n, llm_items(l.food_data))))

\* _process_multiple(text)
_process_multiple(mth, std, portion, text, world) ==
    process_multiple_extracted(mth, std, portion, world.resp,
                               extract_food_with_ner(world.ents, text),
                               extract_food_with_llm(world.phi4))

\* one entry of dishes_found
Dish(dish_name, ingredients, source) ==
    [type |-> "dish", dish_name |-> dish_name, ingredients |-> ingredients, source |-> source]

\* main_ings + sub_ings of a list of parsed ingredient values; ing.lower()
\* raises AttributeError on a value that is no string
merged_ingredients(main_kw, sub_kw, values) ==
    LET ings == [i \in 1..Len(values) |-> values[i].s]
        c == classify_ingredients(main_kw, sub_kw, ings)
    IN  IF \E i \in 1..Len(values) : values[i].t # "str"
        THEN [exc |-> "AttributeError", merged |-> <<>>]
        ELSE [exc |-> "", merged |-> c.main_ings \o c.sub_ings]

\* lines 604-615: the recipe llm of the generative collaborator, llm_m its
\* merged ingredients
resolve_with_llm(acc, dish_name, llm, llm_m, llm_call) ==
    IF Len(llm) > 0 THEN
        IF llm_m.exc # "" THEN [acc EXCEPT !.exc = llm_m.exc, !.calls = llm_call]
        ELSE [acc EXCEPT !.calls = llm_call,
                         !.dishes_found = Append(@, Dish(dish_name, llm_m.merged, "llm"))]
    ELSE [acc EXCEPT !.calls = llm_call,
                     !.other_foods = Append(@, FoodItem(dish_name, RInt(1)))]

\* lines 604-615 for the recipe llm
resolve_generated(main_kw, sub_kw, dish_name, acc, llm, llm_call) ==
    resolve_with_llm(acc, dish_name, llm, merged_ingredients(main_kw, sub_kw, llm), llm_call)

\* lines 595-602: the recipe db of the database, db_m its merged ingredients
resolve_with_db(acc, dish_name, db, db_m, db_call) ==
    IF db_m.exc # "" THEN [acc EXCEPT !.exc = db_m.exc, !.calls = db_call]
    ELSE [acc EXCEPT !.calls = db_call,
                     !.dishes_found = Append(@,
                         Dish(IF db.title # "" THEN db.title ELSE dish_name,
                              db_m.merged, "database"))]

\* the generative fallback asked whatever the store answers
resolve_searched_always_generated(main_kw, sub_kw, world, dish_name, acc, db, db_call) ==
    resolve_generated(main_kw, sub_kw, dish_name, acc,
                      generate_recipe_with_llm(recipe_chat(world.mistral, dish_name)),
                      Append(db_call, "ollama.chat:mistral:" \o dish_name))

\* lines 593-615 for the answer db of search_recipe_in_db
resolve_searched(main_kw, sub_kw, world, dish_name, acc, db, db_call) ==
    IF db.found /\ Len(db.ingredients) > 0
    THEN resolve_with_db(acc, dish_name, db,
                         merged_ingredients(main_kw, sub_kw, db.ingredients), db_call)
    ELSE resolve_generated(main_kw, sub_kw, dish_name, acc,
                           generate_recipe_with_llm(recipe_chat(world.mistral, dish_name)),
                           Append(db_call, "ollama.chat:mistral:" \o dish_name))

\* lines 591-617 for one extracted name: acc is [exc, dishes_found,
\* other_foods, calls]
resolve_name(dish_kw, main_kw, sub_kw, world, dish_name, acc) ==
    IF ~is_probably_dish(dish_kw, dish_name)
    THEN [acc EXCEPT !.other_foods = Append(@, FoodItem(dish_name, RInt(1)))]
    ELSE resolve_searched(main_kw, sub_kw, world, dish_name, acc,
                          search_recipe_in_db(world.db, dish_name),
                          Append(acc.calls, "search_recipe_in_db:" \o dish_name))

RECURSIVE resolve_names(_, _, _, _, _, _)
\* the loop over dish_names
resolve_names(dish_kw, main_kw, sub_kw, world, dish_names, acc) ==
    IF Len(dish_names) = 0 \/ acc.exc # "" THEN acc
    ELSE resolve_names(dish_kw, main_kw, sub_kw, world, Tail(dish_names),
                       resolve_name(dish_kw, main_kw, sub_kw, world, Head(dish_names), acc))

\* lines 622-629: the food is in no dish name and not yet a standalone food
is_new_food(food_name, dishes_found, other_foods) ==
    /\ ~\E k \in 1..Len(dishes_found) : In(food_name, dishes_found[k].dish_name)
    /\ ~\E k \in 1..Len(other_foods) : other_foods[k].food = food_name

RECURSIVE second_pass(_, _, _)
\* lines 619-630: other_foods after the foods of extract_food_with_ner
second_pass(dishes_found, extracted_foods, other_foods) ==
    IF Len(extracted_foods) = 0 THEN other_foods
    ELSE second_pass(dishes_found, Tail(extracted_foods),
             IF is_new_food(Lower(Head(extracted_foods).food), dishes_found, other_foods)
             THEN Append(other_foods, Head(extracted_foods)) ELSE other_foods)

\* lines 632-642: the shape of the result; fallback is the result of
\* self._process_multiple(text), computed only where the code calls it
process_text_result(found, other_foods, fallback) ==
    IF Len(found.dishes_found) = 0 /\ Len(other_foods) = 0 THEN fallback
    ELSE IF Len(found.dishes_found) = 1 /\ Len(other_foods) = 0
    THEN TextResult("", "dish", found.dishes_found, <<>>, <<>>, NoNutrition, found.calls)
    ELSE TextResult("", "combined", found.dishes_found, other_foods, <<>>, NoNutrition,
                    found.calls)

\* lines 619-642, found being the outcome of the loop over dish_names
process_text_found(mth, text, world, found, fallback) ==
    IF found.exc # "" THEN Raised(found.exc, found.calls)
    ELSE process_text_result(found,
             IF mth # "llm"
             THEN second_pass(found.dishes_found, extract_food_with_ner(world.ents, text),
                              found.other_foods)
             ELSE found.other_foods,
             fallback)

\* lines 585-642 for the extracted dish_names
process_text_names(mth, dish_kw, main_kw, sub_kw, text, use_standard_recipe, world, dish_names, fallback) ==
    IF Len(dish_names) = 0 \/ ~use_standard_recipe THEN fallback
    ELSE process_text_found(mth, text, world,
             resolve_names(dish_kw, main_kw, sub_kw, world, dish_names,
                 [exc |-> "", dishes_found |-> <<>>, other_foods |-> <<>>, calls |-> <<>>]),
             fallback)

\* process_text(text, use_standard_recipe)
process_text(mth, dish_kw, main_kw, sub_kw, std, portion, text, use_standard_recipe, world) ==
    process_text_names(mth, dish_kw, main_kw, sub_kw, text, use_standard_recipe, world,
                       extract_dish_names(mth, world.ents, text),
                       _process_multiple(mth, std, portion, text, world))

-----------------------------------------------------------------------------
(* The inputs of the model.                                                *)

\* the quantities 0, 1/2, 1, ... MaxHalves/2, and two large ones
Amounts == {R(k, 2) : k \in 0..MaxHalves} \cup {RInt(12), RInt(200)}

\* every unit string convert_to_grams names, some of them in other cases,
\* and strings it does not name
KnownUnits ==
    {"g", "gram", "grams", "kg", "kilogram", "kilograms", "oz", "ounce", "ounces",
     "lb", "pound", "pounds", "cup", "cups", "tbsp", "tablespoon", "tablespoons",
     "tsp", "teaspoon", "teaspoons", "ml", "milliliter", "piece", "pieces", "slice",
     "slices"}
CasedUnits == {"G", "Kg", "KG", "Cup", "CUPS", "Tbsp", "TSP", "mL", "Piece", "SLICES"}
UnknownUnits == {"unknownunit", "milliliters", "serving", "handful", "large", "l", "s"}

\* the arguments and collaborator answers an operation does not use
NoArgs ==
    [food_name |-> "", amount |-> RInt(1), unit |-> "", ing_list |-> <<>>,
     dish_name |-> "", text |-> "", use_standard_recipe |-> TRUE,
     ingredient_str |-> "", calories_per_100g |-> RInt(0),
     ner_foods |-> <<>>, llm_foods |-> <<>>]
NoResponse == Response("", 404, FALSE, FALSE, <<>>)
NoDb == [ok |-> FALSE, rows |-> <<>>]
NoEnv ==
    [resp |-> NoResponse, ents |-> <<>>, db |-> NoDb, mistral |-> <<>>,
     phi4 |-> ChatAnswer("", "")]

ConvertScenarios ==
    { [op |-> "convert_to_grams", method |-> "hybrid", env |-> NoEnv,
       args |-> [NoArgs EXCEPT !.amount = q, !.unit = u]] :
      q \in Amounts, u \in KnownUnits \cup CasedUnits \cup UnknownUnits \cup {""} }

\* numeric segments of ingredient lines: integers, decimals, fractions, sums
\* of them, and tokens float() or the division rejects
NumericSegments ==
    {"200", "2", "0", "2.5", "3.", ".5", "1/2", "3/4", "1 1/2", "2 1/4 1/4", "1/0",
     ".", "1/2/3", "1..2", "/", "1 1/0", "0.5/0.25"}
\* what directly follows the number: nothing, a unit word, blanks
UnitSuffixes == {"", "g", " g", "G", " cups", " Tbsp", "  large"}
\* what follows the unit word: nothing, or the food name after blanks
FoodSuffixes == {"", " chicken breast", " Flour", "  Olive Oil ", " eggs, beaten"}
\* lines without a leading number, and lines whose number is followed by
\* another character
OtherLines ==
    {"salt", " Salt ", "Olive Oil", "a pinch of salt", "", " ", "chicken 200g",
     "2-3 eggs", "2% milk", "1,5 kg flour", "x2 eggs", "2 large eggs",
     "2\tcups flour", "2 cups\tflour", "2 cups flour\n", "1\n1/2 cups milk",
     "2 cups flour\nsifted", "\t3\r\n", "1.015 cup milk", "1/3 cup Oil",
     "2cups flour", "2 cupsflour", " 2 cups flour", "2 cups flour ",
     "11/2 cups milk", "2 cups CAFÉ", "23 gÀÞ×", "", "2"}
IngredientStrings ==
    {n \o u \o f : n \in NumericSegments, u \in UnitSuffixes, f \in FoodSuffixes}
        \cup OtherLines

ParseScenarios ==
    { [op |-> "parse_ingredient", method |-> "hybrid", env |-> NoEnv,
       args |-> [NoArgs EXCEPT !.ingredient_str = s]] : s \in IngredientStrings }

\* food names: of one category, of several, of none, in capitals
CategoryNames ==
    {"grilled chicken breast", "Brown Rice", "carrot", "apple", "yogurt", "olive oil",
     "orange juice", "chicken rice", "butter chicken", "apple juice", "rice milk",
     "cream cheese", "peanut butter", "coconut water", "CARROT CAKE", "tofu", "", "candy"}
\* calorie densities around the thresholds 30, 200, 300 and 800
CategoryDensities ==
    {RInt(0), RInt(29), RInt(30), RInt(100), RInt(200), RInt(201), RInt(300), RInt(301),
     RInt(800), RInt(801), RInt(850), R(2995, 100)}

CategoryScenarios ==
    { [op |-> "_identify_food_category", method |-> "hybrid", env |-> NoEnv,
       args |-> [NoArgs EXCEPT !.food_name = f, !.calories_per_100g = c]] :
      f \in CategoryNames, c \in CategoryDensities }

\* answers of the external nutrition service
FoodNutrients(cal, pro, fat, carb) ==
    << Nutrient("Protein", pro), Nutrient("Total lipid (fat)", fat),
       Nutrient("Carbohydrate, by difference", carb), Nutrient("Energy", cal) >>
Food(cal, pro, fat, carb) ==
    FoodData({"description", "foodNutrients"}, "Food, RAW", FoodNutrients(cal, pro, fat, carb))

FailedResponses ==
    { Response("ConnectionError", 0, FALSE, FALSE, <<>>),
      Response("Timeout", 0, FALSE, FALSE, <<>>),
      Response("", 200, FALSE, FALSE, <<>>),
      Response("", 500, FALSE, FALSE, <<>>) }
\* bodies without a food: an object without "foods" or with an empty list
\* or an empty str under it, a list
EmptyResponses ==
    { Response("", 200, TRUE, FALSE, <<>>),
      Response("", 200, TRUE, TRUE, <<>>),
      ResponseOf("", 200, TRUE, JObj(<<[k |-> "foods", v |-> JStr("")]>>)),
      ResponseOf("", 200, TRUE, JArr(<<JStr("food")>>)) }
DataResponses ==
    { Response("", 200, TRUE, TRUE, <<Food(RInt(76), RInt(8), R(48, 10), R(23, 10))>>),
      Response("", 200, TRUE, TRUE, <<Food(RInt(884), RInt(0), RInt(100), RInt(0)),
                                      Food(RInt(1), RInt(1), RInt(1), RInt(1))>>),
      Response("", 200, TRUE, TRUE, <<Food(RInt(2100), RInt(42), RInt(124), RInt(312))>>),
      Response("", 200, TRUE, TRUE, <<Food(R(5, 10), R(1, 10), RInt(0), R(2, 10))>>),
      Response("", 200, TRUE, TRUE, <<Food(RInt(250), RInt(20), RInt(15), RInt(5))>>),
      Response("", 200, TRUE, TRUE,
               <<FoodData({"description", "foodNutrients"}, "Protein Powder",
                          <<Nutrient("Protein", RInt(3)),
                            NutrientWith({"nutrientName"}, "Water", RInt(0)),
                            Nutrient("Protein", RInt(3))>>)>>),
      Response("", 200, TRUE, TRUE, <<Food(RInt(50), RInt(3), RInt(1), RInt(7))>>),
      Response("", 200, TRUE, TRUE, <<Food(RInt(100), RInt(0), RInt(0), RInt(25))>>),
      Response("", 200, TRUE, TRUE, <<Food(RInt(200), RInt(10), RInt(8), RInt(20))>>),
      Response("", 200, TRUE, TRUE, <<Food(RInt(76), R(11, 10), R(48, 10), R(19, 10))>>),
      Response("", 200, TRUE, TRUE, <<Food(RInt(200), RInt(7), R(1, 2), RInt(3))>>) }
\* one food with the JSON values given for its description and its energy
FoodOf(description, energy) ==
    JObj(<<[k |-> "description", v |-> description],
           [k |-> "foodNutrients",
            v |-> JArr(<<JObj(<<[k |-> "nutrientName", v |-> JStr("Energy")],
                               [k |-> "value", v |-> energy]>>),
                         Nutrient("Protein", RInt(8))>>)]>>)

\* answers whose values are no JSON numbers: float() takes a str that
\* writes a float, true and false, and raises for another str and for null
OddValueResponses ==
    { Response("", 200, TRUE, TRUE, <<FoodOf(JStr("Tofu"), JStr(" 76\n"))>>),
      Response("", 200, TRUE, TRUE, <<FoodOf(JStr("Tofu"), JLit("true"))>>),
      Response("", 200, TRUE, TRUE, <<FoodOf(JStr("Tofu"), JStr("n/a"))>>),
      Response("", 200, TRUE, TRUE, <<FoodOf(JStr("Tofu"), JLit("null"))>>),
      Response("", 200, TRUE, TRUE, <<FoodOf(JStr("Tofu"), JStr("nan"))>>),
      Response("", 200, TRUE, TRUE, <<FoodOf(JStr("Tofu"), JNum(RInt(-40)))>>),
      Response("", 200, TRUE, TRUE,
               <<FoodData({"description", "foodNutrients"}, "Tofu",
                          <<Nutrient("Energy", RInt(76)),
                            JObj(<<[k |-> "nutrientName", v |-> JStr("Protein")],
                                   [k |-> "value", v |-> JArr(<<>>)]>>)>>)>>) }

\* answers whose body search_food or _extract_nutrition_info cannot read: a
\* body or a food that is no object, a food without a key that is
\* subscripted, a description that is no str
BrokenResponses ==
    { ResponseOf("", 200, TRUE, JLit("null")),
      ResponseOf("", 200, TRUE, JNum(RInt(7))),
      ResponseOf("", 200, TRUE, JStr("no foods found")),
      ResponseOf("", 200, TRUE, JArr(<<JStr("foods")>>)),
      ResponseOf("", 200, TRUE, JObj(<<[k |-> "foods", v |-> JLit("null")]>>)),
      ResponseOf("", 200, TRUE,
                 JObj(<<[k |-> "foods", v |-> JObj(<<[k |-> "0", v |-> Food(RInt(76), RInt(8), RInt(5), RInt(2))]>>)]>>)),
      Response("", 200, TRUE, TRUE, <<JLit("null")>>),
      Response("", 200, TRUE, TRUE, <<JStr("tofu")>>),
      ResponseOf("", 200, TRUE, JObj(<<[k |-> "foods", v |-> JStr("tofu")]>>)),
      Response("", 200, TRUE, TRUE, <<FoodOf(JLit("null"), JNum(RInt(76)))>>),
      Response("", 200, TRUE, TRUE,
               <<JObj(<<[k |-> "description", v |-> JStr("Tofu")],
                        [k |-> "foodNutrients", v |-> JNum(RInt(3))]>>)>>),
      Response("", 200, TRUE, TRUE,
               <<JObj(<<[k |-> "description", v |-> JStr("Tofu")],
                        [k |-> "foodNutrients", v |-> JStr("ab")]>>)>>),
      Response("", 200, TRUE, TRUE,
               <<JObj(<<[k |-> "description", v |-> JNum(RInt(3))],
                        [k |-> "foodNutrients",
                         v |-> JObj(<<[k |-> "Energy", v |-> JNum(RInt(3))]>>)]>>)>>),
      Response("", 200, TRUE, TRUE,
               <<FoodData({"foodNutrients"}, "", FoodNutrients(RInt(76), RInt(8), RInt(5), RInt(2)))>>),
      Response("", 200, TRUE, TRUE, <<FoodData({"description"}, "Tofu, raw", <<>>)>>),
      Response("", 200, TRUE, TRUE,
               <<FoodData({"description", "foodNutrients"}, "Tofu, raw",
                          <<Nutrient("Energy", RInt(76)), NutrientWith({"value"}, "", RInt(8))>>)>>),
      Response("", 200, TRUE, TRUE,
               <<FoodData({"description", "foodNutrients"}, "Tofu, raw",
                          <<NutrientWith({"nutrientName"}, "Energy", RInt(0))>>)>>) }

\* (amount, unit) pairs: no unit, every branch of convert_to_grams, an
\* unknown unit, small and large amounts, and amounts whose products with
\* the per-100g values fall exactly halfway between two hundredths, where
\* the binary error of the float decides the result of round()
ResolveQuantities ==
    { <<R(3, 4), "">>, <<RInt(6), "oz">>, <<RInt(1), "tbsp">>, <<R(1, 4), "">>,
      <<R(3, 10), "">>, <<R(3, 2), "oz">>,
      <<RInt(0), "">>, <<R(1, 2), "">>, <<RInt(1), "">>, <<RInt(2), "">>, <<RInt(12), "">>,
      <<RInt(200), "">>, <<RInt(0), "g">>, <<RInt(50), "g">>, <<RInt(200), "g">>,
      <<RInt(1200), "g">>, <<R(1, 2), "kg">>, <<RInt(2), "kg">>, <<RInt(1), "Cup">>,
      <<RInt(12), "Cup">>, <<RInt(40), "oz">>, <<RInt(1), "lb">>, <<RInt(2), "piece">>,
      <<RInt(3), "slices">>, <<RInt(330), "ml">>, <<RInt(2), "tbsp">>,
      <<RInt(200), "handful">>, <<RInt(1500), "unknownunit">> }
TableFoods ==
    {"ice", "Ice Cubes ", "ice cube", "ice cubes", "water", "Water", "coca-cola", "coke", "Diet Cola",
     "pepsi", "mac and cheese", "chicken breast", "rice", "brown bread", "", "pasta",
     "冰", "冰" \o U_5757, "\t冰" \o U_5757 \o " ", " 冰\n", "mac ", "PEP", "CRÈME BRÛLÉE"}
LookupFoods ==
    {"tofu", "olive oil", "apple", "spinach", "whole milk", "pork chop", "lentils",
     "egg noodles", "energy drink", "lettuce"}
\* quantities of the odd answers
FewQuantities == {<<RInt(2), "">>, <<RInt(40), "oz">>}

ResolveScenarios ==
    { [op |-> "get_food_nutrition", method |-> "hybrid", env |-> [NoEnv EXCEPT !.resp = r],
       args |-> [NoArgs EXCEPT !.food_name = f, !.amount = qu[1], !.unit = qu[2]]] :
      f \in TableFoods, qu \in ResolveQuantities, r \in {NoResponse} }
    \cup
    { [op |-> "get_food_nutrition", method |-> "hybrid", env |-> NoEnv,
       args |-> [NoArgs EXCEPT !.food_name = StandardNutritionTable[k].key,
                               !.amount = RInt(100), !.unit = "g"]] :
      k \in 1..Len(StandardNutritionTable) }
    \cup
    { [op |-> "get_food_nutrition", method |-> "hybrid", env |-> [NoEnv EXCEPT !.resp = r],
       args |-> [NoArgs EXCEPT !.food_name = f, !.amount = qu[1], !.unit = qu[2]]] :
      f \in LookupFoods, qu \in ResolveQuantities,
      r \in FailedResponses \cup EmptyResponses \cup DataResponses }
    \cup
    { [op |-> "get_food_nutrition", method |-> "hybrid", env |-> [NoEnv EXCEPT !.resp = r],
       args |-> [NoArgs EXCEPT !.food_name = f, !.amount = qu[1], !.unit = qu[2]]] :
      f \in {"tofu", "whole milk", "ÉCLAIR "}, qu \in FewQuantities,
      r \in BrokenResponses \cup OddValueResponses }

\* ingredient lines as the recipe store and the generative fallback give them
IngredientLines ==
    {"2 kg chicken", "320g beef", "1 1/2 cups flour", "salt", "3 tbsp Olive Oil",
     "2 large eggs"}

\* the sequences over S of length at most n
SeqsUpTo(S, n) == UNION {[1..k -> S] : k \in 0..n}

\* dish names: those containing a key of self.standard_nutrition ("Chicken
\* Soup", "beef curry", "mac and cheese", "cola float", "Bread Soup": the
\* richest entry under the lowest ceiling), one contained in a key ("Mac"),
\* and names of every ceiling
DishNames ==
    {"Chicken Soup", "beef curry", "mac and cheese", "cola float", "Mac", "Bread Soup",
     "Thai Curry",
     "lentil soup", "greek salad", "baked mac with cheese sauce", "curry salad soup",
     "Standard Recipe"}

DishResponses ==
    { NoResponse,
      Response("ConnectionError", 0, FALSE, FALSE, <<>>),
      Response("", 200, TRUE, TRUE, <<Food(RInt(250), RInt(20), RInt(15), RInt(5))>>) }

\* ingredient lines with a tab or a line feed for a blank, and lines whose
\* quantity or whose nutrients fall exactly halfway between two hundredths
HalfwayLines ==
    {"0.75 pasta", "6 oz pasta", "1.015\tcups milk", "1 tbsp\npasta", "0.25 spinach",
     "2cups flour", "1 mac "}

\* answers for these lines: none, data, a body that is null
HalfwayResponses ==
    { NoResponse,
      Response("", 200, TRUE, TRUE, <<Food(RInt(250), RInt(20), RInt(15), RInt(5))>>),
      ResponseOf("", 200, TRUE, JLit("null")) }

DishScenarios ==
    { [op |-> "_analyze_ingredients_list", method |-> "hybrid", env |-> [NoEnv EXCEPT !.resp = r],
       args |-> [NoArgs EXCEPT !.ing_list = l, !.dish_name = d]] :
      l \in SeqsUpTo(IngredientLines, MaxIngredients), d \in DishNames, r \in DishResponses }
    \cup
    { [op |-> "_analyze_ingredients_list", method |-> "hybrid", env |-> [NoEnv EXCEPT !.resp = r],
       args |-> [NoArgs EXCEPT !.ing_list = l, !.dish_name = d]] :
      l \in SeqsUpTo(HalfwayLines, MaxIngredients), d \in {"lentil soup"},
      r \in HalfwayResponses }

\* what a user types, with the entities the spaCy model finds in it
Ent(text, label) == [text |-> text, label |-> label]
Utterance(text, ents) == [text |-> text, ents |-> ents]
Utterances ==
    { Utterance("hello", <<>>),
      Utterance("", <<>>),
      Utterance("I had chicken soup and an apple",
                <<Ent("chicken soup", "FOOD"), Ent("apple", "FOOD")>>),
      Utterance("Chicken Soup", <<Ent("Chicken Soup", "FOOD")>>),
      Utterance("2% milk and apple", <<Ent("2% milk", "FOOD"), Ent("apple", "FOOD")>>),
      Utterance("2 cups of rice", <<>>),
      Utterance("pizza and salad today", <<>>),
      Utterance("apple and apple", <<Ent("apple", "FOOD"), Ent("apple", "FOOD")>>),
      Utterance("2 cups rice today", <<Ent("2 cups", "QUANTITY"), Ent("rice today", "FOOD")>>),
      Utterance("tofu", <<Ent("tofu", "FOOD")>>),
      Utterance("greek salad and mystery stew",
                <<Ent("greek salad", "FOOD"), Ent("mystery stew", "FOOD")>>),
      Utterance("see you today", <<Ent("today", "FOOD")>>),
      Utterance("inf/inf soup", <<Ent("inf/inf", "QUANTITY"), Ent("soup", "FOOD")>>),
      Utterance("CAFÉ and a ", <<Ent(" CAFÉ", "FOOD"), Ent("a", "FOOD")>>),
      Utterance("Café Soup", <<Ent("Café Soup", "FOOD")>>),
      Utterance("nan 25 and 2cups of RICE", <<>>) }

\* the recipes table
Row(title, ingredients) == [title |-> title, ingredients |-> ingredients]
Databases ==
    { NoDb,
      [ok |-> TRUE, rows |-> <<>>],
      [ok |-> TRUE,
       rows |-> << Row("Grandma's Chicken Soup", "[\"200g chicken\", \"salt\", \"1 onion\"]"),
                   Row("2-Minute Chocolate Milk", "[{\"text\": \"2 cups milk\"}, \"sugar\"]"),
                   Row("Greek Salad", "[]"),
                   Row("CAFÉ SOUP", "[\"2 cups coffee\"]"),
                   Row("Petit Café Soup", "[\"1 cup coffee\", \"cream\"]") >>],
      [ok |-> TRUE, rows |-> << Row("CAFÉ Soup", "[\"2 cups coffee\"]") >>] }

\* the replies of the recipe model
Rule(about, exc, content) == [about |-> about, exc |-> exc, content |-> content]
RecipeModels ==
    { <<>>,
      <<Rule("", "", "Sure: [\"salt\", \"200g chicken\"]")>>,
      <<Rule("", "ConnectionError", "")>>,
      <<Rule("chicken soup", "", "As in [1]: [\"rice\"]"),
        Rule("", "", "[\"a\", \"b\", \"c\", \"d\", \"e\", \"f\", \"g\", \"h\"]")>> }

\* ingredients with a main keyword, a secondary one, both, none
ClassifiedIngredients ==
    {"200g Chicken breast", "1 tsp salt", "garlic chicken", "2 carrots", "Butter",
     "1 cup rice", "soy sauce"}

ClassifyScenarios ==
    { [op |-> "classify_ingredients", method |-> "hybrid", env |-> NoEnv,
       args |-> [NoArgs EXCEPT !.ing_list = l]] :
      l \in SeqsUpTo(ClassifiedIngredients, MaxIngredients) }

\* replies of the recipe model: prose, an array or something like one, prose
Prefaces == {"", "Sure: ", "Here is the list:  "}
ArrayTexts ==
    {"[\"salt\", \"200g chicken\"]", "[]", "[\"330ml Coca-Cola\", \"ice cubes\"]",
     "[\"a\", \"b\", \"c\", \"d\", \"e\", \"f\", \"g\", \"h\"]",
     "[\"a\", ]", "[\"1 onion\"", "no list", "[1, \"x\"]", "{\"a\": [\"b\"]}"}
Closings == {"", " Enjoy!", " (serves 2 [approx])", " or [\"rice\"]"}
RecipeReplies ==
    {Rule("", "", p \o a \o c) : p \in Prefaces, a \in ArrayTexts, c \in Closings}
        \cup {Rule("", "ConnectionError", ""), Rule("", "KeyError", "")}

RecipeScenarios ==
    { [op |-> "generate_recipe_with_llm", method |-> "hybrid",
       env |-> [NoEnv EXCEPT !.mistral = <<r>>],
       args |-> [NoArgs EXCEPT !.dish_name = "chicken soup"]] : r \in RecipeReplies }

\* items of the two extractors.  The entity extractor gives lower-cased
\* names and numbers; the generative one gives what the model wrote: names
\* differing in case and blanks, quantities as numbers, numeric and other
\* strings, null, or none
FoodEntry(food, quantity) ==
    JObj(<<[k |-> "food", v |-> JStr(food)], [k |-> "quantity", v |-> quantity]>>)
NerItems ==
    { FoodEntry("apple", JNum(RInt(2))), FoodEntry("rice", JNum(R(1, 2))),
      FoodEntry("tofu", JNum(RInt(1))) }
LlmItems ==
    { FoodEntry("Apple ", JNum(RInt(3))), FoodEntry("apple", JStr("2.5")),
      FoodEntry("rice", JStr("two")), FoodEntry(" Tofu", JLit("null")),
      JObj(<<[k |-> "food", v |-> JStr("tofu")]>>) }

MergeScenarios ==
    { [op |-> "_merge_ner_llm", method |-> "hybrid", env |-> NoEnv,
       args |-> [NoArgs EXCEPT !.ner_foods = n, !.llm_foods = l]] :
      n \in SeqsUpTo(NerItems, MaxFoods), l \in SeqsUpTo(LlmItems, MaxFoods) }

\* the replies of the extraction model
ExtractionModels ==
    { ChatAnswer("", "[{\"food\": \"apple\", \"quantity\": 2}, {\"food\": \"Tofu \", \"quantity\": \"1.5\"}]"),
      ChatAnswer("", "I found nothing."),
      ChatAnswer("", "[{\"food\": \"rice\"}, \"tea\"]"),
      ChatAnswer("ConnectionError", "") }

Methods == {"llm", "ner", "hybrid"}

TextScenarios ==
    { [op |-> "process_text", method |-> m,
       env |-> [NoEnv EXCEPT !.ents = u.ents, !.db = db, !.mistral = r],
       args |-> [NoArgs EXCEPT !.text = u.text, !.use_standard_recipe = TRUE]] :
      m \in Methods, u \in Utterances, db \in Databases, r \in RecipeModels }
    \cup
    { [op |-> "process_text", method |-> m,
       env |-> [NoEnv EXCEPT !.ents = u.ents, !.phi4 = x, !.resp = r],
       args |-> [NoArgs EXCEPT !.text = u.text, !.use_standard_recipe = FALSE]] :
      m \in Methods, u \in Utterances, x \in ExtractionModels, r \in DishResponses }

-----------------------------------------------------------------------------
(* The state machine: a caller holding one NutritionPipeline invokes one   *)
(* operation on it, up to MaxCalls times with the same arguments and the   *)
(* same collaborator answers.                                              *)

\* the state after NutritionPipeline.__init__, for one scenario
InitWith(scenarios) ==
    /\ standard_nutrition = StandardNutritionTable
    /\ portion_sizes = PortionSizesTable
    /\ common_dish_keywords = CommonDishKeywords
    /\ main_keywords = MainKeywords
    /\ sub_keywords = SubKeywords
    /\ rets = <<>>
    /\ chat_history = <<>>
    /\ all_detected_items = <<>>
    /\ awaiting_item_confirmation = FALSE
    /\ pipeline_calls = {}
    /\ \E sc \in scenarios :
        /\ op = sc.op
        /\ method = sc.method
        /\ args = sc.args
        /\ env = sc.env

Call_convert_to_grams ==
    /\ op = "convert_to_grams"
    /\ Len(rets) < MaxCalls
    /\ rets' = Append(rets, [exc |-> "",
                             value |-> convert_to_grams(portion_sizes, args.amount, args.unit)])
    /\ UNCHANGED <<standard_nutrition, portion_sizes, keywords, method, op, args, env, session>>

Call_parse_ingredient ==
    /\ op = "parse_ingredient"
    /\ Len(rets) < MaxCalls
    /\ rets' = Append(rets, [exc |-> "", value |-> parse_ingredient(args.ingredient_str)])
    /\ UNCHANGED <<standard_nutrition, portion_sizes, keywords, method, op, args, env, session>>

Call_identify_food_category ==
    /\ op = "_identify_food_category"
    /\ Len(rets) < MaxCalls
    /\ rets' = Append(rets, [exc |-> "",
                             value |-> _identify_food_category(args.food_name,
                                                               args.calories_per_100g)])
    /\ UNCHANGED <<standard_nutrition, portion_sizes, keywords, method, op, args, env, session>>

Call_classify_ingredients ==
    /\ op = "classify_ingredients"
    /\ Len(rets) < MaxCalls
    /\ rets' = Append(rets, [exc |-> "",
                             value |-> classify_ingredients(main_keywords, sub_keywords,
                                                            args.ing_list)])
    /\ UNCHANGED <<standard_nutrition, portion_sizes, keywords, method, op, args, env, session>>

Call_generate_recipe_with_llm ==
    /\ op = "generate_recipe_with_llm"
    /\ Len(rets) < MaxCalls
    /\ rets' = Append(rets, [exc |-> "",
                             value |-> generate_recipe_with_llm(
                                           recipe_chat(env.mistral, args.dish_name))])
    /\ UNCHANGED <<standard_nutrition, portion_sizes, keywords, method, op, args, env, session>>

\* _merge_ner_llm(ner_foods, llm_foods): x["food"] of an item that has none
\* raises, float(x["quantity"]) is taken inside try/except
Call_merge_ner_llm ==
    /\ op = "_merge_ner_llm"
    /\ Len(rets) < MaxCalls
    /\ rets' = Append(rets,
           IF first_food_error(args.ner_foods \o args.llm_foods) # ""
           THEN [exc |-> first_food_error(args.ner_foods \o args.llm_foods), value |-> <<>>]
           ELSE [exc |-> "",
                 value |-> _merge_ner_llm(llm_items(args.ner_foods),
                                          llm_items(args.llm_foods))])
    /\ UNCHANGED <<standard_nutrition, portion_sizes, keywords, method, op, args, env, session>>

\* get_food_nutrition returns r, or r.exc leaves it
Return_get_food_nutrition(r) == rets' = Append(rets, r)

Call_get_food_nutrition ==
    /\ op = "get_food_nutrition"
    /\ Len(rets) < MaxCalls
    /\ Return_get_food_nutrition(
           get_food_nutrition(standard_nutrition, portion_sizes, args.food_name,
                              args.amount, args.unit, env.resp))
    /\ UNCHANGED <<standard_nutrition, portion_sizes, keywords, method, op, args, env, session>>

\* _analyze_ingredients_list returns r, or r.exc leaves it
Return_analyze_ingredients_list(r) == rets' = Append(rets, r)

Call_analyze_ingredients_list ==
    /\ op = "_analyze_ingredients_list"
    /\ Len(rets) < MaxCalls
    /\ Return_analyze_ingredients_list(
           _analyze_ingredients_list(standard_nutrition, portion_sizes, args.ing_list,
                                     args.dish_name, env.resp))
    /\ UNCHANGED <<standard_nutrition, portion_sizes, keywords, method, op, args, env, session>>

\* process_text returns r, or r.exc leaves it
Return_process_text(r) == rets' = Append(rets, r)

Call_process_text ==
    /\ op = "process_text"
    /\ Len(rets) < MaxCalls
    /\ Return_process_text(
           process_text(method, common_dish_keywords, main_keywords, sub_keywords,
                        standard_nutrition, portion_sizes, args.text,
                        args.use_standard_recipe, env))
    /\ UNCHANGED <<standard_nutrition, portion_sizes, keywords, method, op, args, env, session>>

InitConvert == InitWith(ConvertScenarios)
NextConvert == Call_convert_to_grams
SpecConvert == InitConvert /\ [][NextConvert]_vars

InitParse == InitWith(ParseScenarios)
NextParse == Call_parse_ingredient
SpecParse == InitParse /\ [][NextParse]_vars

InitCategory == InitWith(CategoryScenarios)
NextCategory == Call_identify_food_category
SpecCategory == InitCategory /\ [][NextCategory]_vars

InitClassify == InitWith(ClassifyScenarios)
NextClassify == Call_classify_ingredients
SpecClassify == InitClassify /\ [][NextClassify]_vars

InitRecipe == InitWith(RecipeScenarios)
NextRecipe == Call_generate_recipe_with_llm
SpecRecipe == InitRecipe /\ [][NextRecipe]_vars

InitMerge == InitWith(MergeScenarios)
NextMerge == Call_merge_ner_llm
SpecMerge == InitMerge /\ [][NextMerge]_vars

InitResolve == InitWith(ResolveScenarios)
NextResolve == Call_get_food_nutrition
SpecResolve == InitResolve /\ [][NextResolve]_vars

InitDish == InitWith(DishScenarios)
NextDish == Call_analyze_ingredients_list
SpecDish == InitDish /\ [][NextDish]_vars

InitText == InitWith(TextScenarios)
NextText == Call_process_text
SpecText == InitText /\ [][NextText]_vars

-----------------------------------------------------------------------------
(* The nutrition chat of new_main_streamlit.py: one script run per user    *)
(* input, on the session state the previous runs left.  The handler is     *)
(* written for what a call of the pipeline gives, a value of one of the    *)
(* shapes the chat distinguishes or an exception that ends the run there;  *)
(* the pipeline the script builds gives the outcomes of the class that     *)
(* line 4 imports.                                                         *)

\* the commands that start the analysis
AnalyzeCommands == {"analyze", "confirm", "ok", "yes", "start analysis"}

\* what the user types
ChatInputs ==
    {"analyze", "OK", "Yes", "delete1", "delete 2", "delete0", "deletex", "add rice", "add ",
     "apple pie", "chicken soup and an apple", "hello"}

user_message(content) == [role |-> "user", content |-> content]
assistant_message(content) == [role |-> "assistant", content |-> content]

dish_item(name, ingredients) ==
    [type |-> "dish", name |-> name, ingredients |-> ingredients]
food_item(name, quantity) == [type |-> "food", name |-> name, quantity |-> quantity]

\* a value process_text returns, or the exception it raises (exc); none
\* marks a value that counts as false at line 412, None
ChatResult(type, dish, dishes, other_foods, records) ==
    [exc |-> "", none |-> FALSE, type |-> type, dish_name |-> dish.dish_name,
     ingredients |-> dish.ingredients, dishes |-> dishes, other_foods |-> other_foods,
     items |-> records, detailed_breakdown |-> records]

NoDish == [dish_name |-> "", ingredients |-> <<>>]

\* process_text raising
ChatRaised(exc) == [ChatResult("", NoDish, <<>>, <<>>, <<>>) EXCEPT !.exc = exc]

\* nutrition_pipeline.process_text(user_input, use_standard_recipe=True) of
\* line 410.  nutrition_pipeline (line 162) is an instance of the class that
\* line 4 imports, models/nutrition_pipeline.py, whose process_text(self,
\* text) takes no use_standard_recipe: the call raises TypeError whatever
\* the input is
ProcessTextOutcomes == { ChatRaised("TypeError") }

\* the analysis of one item (lines 258 and 280): the call raises exc, or it
\* returns a result whose ingredient records fill a table (rows) or none
Analysis(exc, rows) == [exc |-> exc, rows |-> rows]

\* nutrition_pipeline._analyze_ingredients_list and
\* nutrition_pipeline.get_food_nutrition for the items of the list: the
\* imported class defines neither, the attribute lookup raises
AnalysisOutcomes(items) == { [i \in 1..Len(items) |-> Analysis("AttributeError", FALSE)] }

\* strip_quantity(ing_str)
strip_quantity(ing_str) ==
    IF PatternMatch(Strip(ing_str)).matched
    THEN Strip(PatternMatch(Strip(ing_str)).g3)
    ELSE Strip(ing_str)

RECURSIVE JoinNames(_)
\* ", ".join of the stripped ingredient names
JoinNames(ingredients) ==
    IF Len(ingredients) = 0 THEN ""
    ELSE IF Len(ingredients) = 1 THEN strip_quantity(ingredients[1])
    ELSE strip_quantity(Head(ingredients)) \o ", " \o JoinNames(Tail(ingredients))

RECURSIVE str_int(_)
\* str(n) of an int n that is 0 or more
str_int(n) ==
    IF n < 10 THEN Digits[n + 1] ELSE str_int(n \div 10) \o Digits[(n % 10) + 1]

\* the line of the item at position n of the list, n being i+1
item_line(n, item) ==
    IF item.type = "dish"
    THEN str_int(n) \o ". " \o item.name \o " (Dish)\n   Main ingredients: "
             \o JoinNames(item.ingredients) \o "\n"
    ELSE str_int(n) \o ". " \o item.name \o " (Single Ingredient)\n"

RECURSIVE item_lines(_, _)
item_lines(items, n) ==
    IF n = 0 THEN "" ELSE item_lines(items, n - 1) \o item_line(n, items[n])

\* display_detected_items(items)
display_detected_items(items) ==
    "Detected the following food items:\n\n" \o item_lines(items, Len(items))

\* the items of the dishes of a combined result
dish_items(dishes) ==
    [i \in 1..Len(dishes) |-> dish_item(dishes[i].dish_name, dishes[i].ingredients)]
\* the items of its standalone foods
other_food_items(other_foods) ==
    [i \in 1..Len(other_foods) |-> food_item(other_foods[i].food, other_foods[i].quantity)]
\* the items of the records of a multiple result
breakdown_items(breakdown) ==
    [i \in 1..Len(breakdown) |-> food_item(breakdown[i].food_name, breakdown[i].quantity)]

\* all_items: the dishes and foods of a result of process_text
all_items(result) ==
    IF result.type = "combined"
    THEN dish_items(result.dishes) \o other_food_items(result.other_foods)
    ELSE IF result.type = "dish"
    THEN <<dish_item(result.dish_name, result.ingredients)>>
    ELSE IF result.type = "single"
    THEN <<food_item(result.items[1].food_name, RInt(1))>>
    ELSE IF result.type = "multiple"
    THEN breakdown_items(result.detailed_breakdown)
    ELSE <<>>

ConfirmPrompt ==
    "Please confirm the list above. If you need to modify, enter the number to delete (e.g., 'delete1') or add a new item (e.g., 'add vegetable salad'). Once finished, enter 'analyze' to start the nutrition calculation."
ModifyPrompt == "Please continue modifying or enter 'analyze' for nutrition calculation."
UnableMessage ==
    "Unable to understand your input. Please provide a clearer description of the food or dish."
AnalyzedMessage ==
    "All items have been analyzed. You can enter new foods or dishes for analysis."
DeletedAllMessage == "All items have been deleted. Please enter new items for analysis."
UnrecognizedMessage ==
    "Unrecognized command. Please use 'add item name', 'delete number', or 'analyze'."

\* the messages the chat appends for the items it found
detected_messages(items) ==
    IF Len(items) > 0
    THEN <<assistant_message(display_detected_items(items)), assistant_message(ConfirmPrompt)>>
    ELSE <<assistant_message("No food or dishes recognized.")>>

\* the messages the chat appends for a value of process_text
result_messages(result) ==
    IF result.none THEN <<assistant_message(UnableMessage)>>
    ELSE detected_messages(all_items(result))

\* int(s) of digits that single underscores may separate
int_digits(s, digits) ==
    [ok |-> Len(digits) > 0 /\ UnderscoresBetweenDigits(s)
            /\ RunLength(IsDigit, digits, 1) = Len(digits),
     value |-> DigitsValue(SubSeq(digits, 1, RunLength(IsDigit, digits, 1)))]

\* int(s) of a string without spaces around it
int_signed(s) ==
    IF Len(s) > 0 /\ CharAt(s, 1) \in {"+", "-"}
    THEN [ok |-> int_digits(SubSeq(s, 2, Len(s)), Replace(SubSeq(s, 2, Len(s)), "_")).ok,
          value |-> (IF CharAt(s, 1) = "-" THEN -1 ELSE 1)
                        * int_digits(SubSeq(s, 2, Len(s)),
                                     Replace(SubSeq(s, 2, Len(s)), "_")).value]
    ELSE int_digits(s, Replace(s, "_"))

\* int(s): ok is FALSE where int raises ValueError
ParseInteger(s) == int_signed(StripNumber(s))

\* the list without its item at position k
Popped(items, k) == SubSeq(items, 1, k - 1) \o SubSeq(items, k + 1, Len(items))

\* the number of inputs the chat has taken
InputsTaken(history) == Cardinality({i \in 1..Len(history) : history[i].role = "user"})

\* st.session_state, with the calls of the pipeline the runs have made
SessionState(history, items, awaiting, calls) ==
    [chat_history |-> history, all_detected_items |-> items,
     awaiting_item_confirmation |-> awaiting, pipeline_calls |-> calls]

\* a call of the pipeline method fn by the run that handles user_input
pipeline_call(fn, st, user_input) ==
    [fn |-> fn, awaiting |-> st.awaiting_item_confirmation, command |-> user_input]

\* a new request that starts awaiting the confirmation before its call of
\* process_text
new_request_awaiting_first(st, user_input, result) ==
    IF result.exc # ""
    THEN [st EXCEPT !.awaiting_item_confirmation = TRUE,
                    !.pipeline_calls = @ \cup {pipeline_call("process_text", st, user_input)}]
    ELSE SessionState(st.chat_history \o result_messages(result),
                      IF result.none THEN st.all_detected_items ELSE all_items(result),
                      TRUE,
                      st.pipeline_calls \cup {pipeline_call("process_text", st, user_input)})

\* lines 408-483, a new analysis request: the session after process_text
\* gave result.  When the call raises the run ends at line 410
new_request(st, user_input, result) ==
    IF result.exc # ""
    THEN [st EXCEPT !.pipeline_calls = @ \cup {pipeline_call("process_text", st, user_input)}]
    ELSE SessionState(st.chat_history \o result_messages(result),
                      IF result.none THEN st.all_detected_items ELSE all_items(result),
                      IF ~result.none /\ Len(all_items(result)) > 0
                      THEN TRUE ELSE st.awaiting_item_confirmation,
                      st.pipeline_calls \cup {pipeline_call("process_text", st, user_input)})

\* the pipeline method that analyses an item
analysis_method(item) ==
    IF item.type = "dish" THEN "_analyze_ingredients_list" ELSE "get_food_nutrition"

\* lines 253-294, the messages of one analysed item: its summary and, for
\* a dish whose table is not empty (line 265), the table (a message is
\* kept by its first line)
analysis_messages(item, analysis) ==
    IF item.type = "dish"
    THEN <<assistant_message("Dish Name: " \o item.name)>>
             \o (IF analysis.rows
                 THEN <<assistant_message("Detailed nutrition data:")>> ELSE <<>>)
    ELSE <<assistant_message("[Single Item] " \o item.name)>>

RECURSIVE analysed_messages(_, _, _)
\* the messages of the first n items
analysed_messages(items, analyses, n) ==
    IF n = 0 THEN <<>>
    ELSE analysed_messages(items, analyses, n - 1)
             \o analysis_messages(items[n], analyses[n])

\* the calls of the pipeline for the first n items
analysis_calls(st, n, user_input) ==
    { pipeline_call(analysis_method(st.all_detected_items[i]), st, user_input) : i \in 1..n }

\* the position of the first item whose analysis raises, 0 without one
first_raising(analyses) ==
    IF \E i \in 1..Len(analyses) : analyses[i].exc # ""
    THEN CHOOSE i \in 1..Len(analyses) :
             analyses[i].exc # "" /\ \A j \in 1..(i - 1) : analyses[j].exc = ""
    ELSE 0

\* the messages that close a completed analysis
closing_messages(items) ==
    (IF Len(items) > 1
     THEN <<assistant_message("[Total Nutrition for All Items]")>> ELSE <<>>)
        \o <<assistant_message(AnalyzedMessage)>>

\* lines 239-316, "analyze" while awaiting confirmation, the loop having
\* stopped at the item of position failed (0: it completed).  A call that
\* raises ends the run before the reset of lines 309-310
analyze_until(st, user_input, analyses, failed) ==
    IF failed = 0
    THEN SessionState(st.chat_history
                          \o <<assistant_message("Starting nutrition analysis for all items...")>>
                          \o analysed_messages(st.all_detected_items, analyses,
                                               Len(st.all_detected_items))
                          \o closing_messages(st.all_detected_items),
                      <<>>, FALSE,
                      st.pipeline_calls
                          \cup analysis_calls(st, Len(st.all_detected_items), user_input))
    ELSE SessionState(st.chat_history
                          \o <<assistant_message("Starting nutrition analysis for all items...")>>
                          \o analysed_messages(st.all_detected_items, analyses, failed - 1),
                      st.all_detected_items, st.awaiting_item_confirmation,
                      st.pipeline_calls \cup analysis_calls(st, failed, user_input))

\* lines 239-316
analyze(st, user_input, analyses) ==
    analyze_until(st, user_input, analyses, first_raising(analyses))

\* a session with more messages
Answered(st, messages) == [st EXCEPT !.chat_history = @ \o messages]

\* the messages after the deletion of an item
deleted_messages(name, remaining) ==
    <<assistant_message("Deleted: " \o name)>>
        \o (IF Len(remaining) > 0
            THEN <<assistant_message(display_detected_items(remaining)),
                   assistant_message(ModifyPrompt)>>
            ELSE <<assistant_message(DeletedAllMessage)>>)

\* lines 321-357: the session after "delete<n>" with the number parsed
deleted(st, index) ==
    IF 0 <= index /\ index < Len(st.all_detected_items)
    THEN SessionState(st.chat_history
                          \o deleted_messages(st.all_detected_items[index + 1].name,
                                              Popped(st.all_detected_items, index + 1)),
                      Popped(st.all_detected_items, index + 1),
                      IF Len(st.all_detected_items) > 1
                      THEN st.awaiting_item_confirmation ELSE FALSE,
                      st.pipeline_calls)
    ELSE Answered(st, <<assistant_message("Invalid number, please try again.")>>)

\* lines 318-363, "delete<n>" while awaiting confirmation
delete_item(st, user_input) ==
    IF ParseInteger(SubSeq(user_input, 7, Len(user_input))).ok
    THEN deleted(st, ParseInteger(SubSeq(user_input, 7, Len(user_input))).value - 1)
    ELSE Answered(st, <<assistant_message("Invalid format, please use 'delete1' format.")>>)

\* lines 367-393: the session with new_food added
added(st, new_food) ==
    SessionState(st.chat_history
                     \o <<assistant_message("Added: " \o new_food),
                          assistant_message(display_detected_items(
                              Append(st.all_detected_items, food_item(new_food, RInt(1))))),
                          assistant_message(ModifyPrompt)>>,
                 Append(st.all_detected_items, food_item(new_food, RInt(1))),
                 st.awaiting_item_confirmation, st.pipeline_calls)

\* lines 365-399, "add <name>" while awaiting confirmation
add_item(st, user_input) ==
    IF Len(Strip(SubSeq(user_input, 4, Len(user_input)))) > 0
    THEN added(st, Strip(SubSeq(user_input, 4, Len(user_input))))
    ELSE Answered(st, <<assistant_message("Please specify the name of the item to add.")>>)

\* lines 238-406, an input while awaiting confirmation
confirmation_input(st, user_input, analyses) ==
    IF Lower(user_input) \in AnalyzeCommands THEN analyze(st, user_input, analyses)
    ELSE IF StartsWith(Lower(user_input), "delete") THEN delete_item(st, user_input)
    ELSE IF StartsWith(Lower(user_input), "add") THEN add_item(st, user_input)
    ELSE Answered(st, <<assistant_message(UnrecognizedMessage)>>)

\* lines 237-483 on the session that line 235 left
handled(st, user_input, result, analyses) ==
    IF st.awaiting_item_confirmation
    THEN confirmation_input(st, user_input, analyses)
    ELSE new_request(st, user_input, result)

\* lines 233-483, the script run for one input: line 235 appends the user
\* message, then the branch of the session handles the input
chat_input(st, user_input, result, analyses) ==
    handled(Answered(st, <<user_message(user_input)>>), user_input, result, analyses)

\* the session moves to st
SessionBecomes(st) ==
    /\ chat_history' = st.chat_history
    /\ all_detected_items' = st.all_detected_items
    /\ awaiting_item_confirmation' = st.awaiting_item_confirmation
    /\ pipeline_calls' = st.pipeline_calls

\* one script run of the nutrition chat
Chat_input ==
    \E user_input \in ChatInputs, result \in ProcessTextOutcomes,
       analyses \in AnalysisOutcomes(all_detected_items) :
        /\ op = "chat"
        /\ InputsTaken(chat_history) < MaxInputs
        /\ SessionBecomes(chat_input(SessionState(chat_history, all_detected_items,
                                                  awaiting_item_confirmation,
                                                  pipeline_calls),
                                     user_input, result, analyses))
        /\ UNCHANGED <<standard_nutrition, portion_sizes, keywords, method, op, args, env, rets>>

\* the nutrition chat on the pipeline of line 162
ChatScenarios == { [op |-> "chat", method |-> "hybrid", env |-> NoEnv, args |-> NoArgs] }

InitChat == InitWith(ChatScenarios)
NextChat == Chat_input
SpecChat == InitChat /\ [][NextChat]_vars

-----------------------------------------------------------------------------
\* every operation of the pipeline and of the chat
Init ==
    InitWith(ConvertScenarios \cup ParseScenarios \cup CategoryScenarios
                 \cup ClassifyScenarios \cup RecipeScenarios \cup ResolveScenarios
                 \cup DishScenarios \cup TextScenarios \cup MergeScenarios
                 \cup ChatScenarios)
Next ==
    \/ Call_convert_to_grams
    \/ Call_parse_ingredient
    \/ Call_identify_food_category
    \/ Call_classify_ingredients
    \/ Call_generate_recipe_with_llm
    \/ Call_get_food_nutrition
    \/ Call_analyze_ingredients_list
    \/ Call_process_text
    \/ Call_merge_ner_llm
    \/ Chat_input
Spec == Init /\ [][Next]_vars

-----------------------------------------------------------------------------
(* Properties.                                                             *)

IsNutrition(v) == DOMAIN v = {"calories", "protein", "fat", "carbs"}
\* a float that is a number, and one that is 0 or more
IsNumber(x) == x.d # 0
IsNonNegative(x) == x.d # 0 /\ x.n >= 0
NonNegative(v) == \A f \in {"calories", "protein", "fat", "carbs"} : IsNonNegative(v[f])
AllZero(v) == \A f \in {"calories", "protein", "fat", "carbs"} : v[f].d # 0 /\ v[f].n = 0

\* the four values of the data are numbers of 0 or more
LookupValuesNonNegative(floats) ==
    \A f \in {"calories", "protein", "fat", "carbs"} :
        floats[f].exc = "" /\ IsNonNegative(floats[f].value)

\* the external lookup answers: no data, or per-100g values of 0 or more
LookupAnswered(lookup) ==
    /\ lookup.exc = ""
    /\ lookup.found => LookupValuesNonNegative(usda_floats(lookup.data))
LookupAnswers(resp) == LookupAnswered(search_food(resp))

\* C1: for every food name, quantity >= 0, unit and answer of the external
\* lookup (no data, or per-100g values >= 0), get_food_nutrition returns a
\* record of exactly the four fields calories, protein, fat and carbs, each
\* of them >= 0.
C1_FourNonNegativeFields ==
    (op = "get_food_nutrition" /\ Len(rets) > 0 /\ LookupAnswers(env.resp)) =>
        \A i \in 1..Len(rets) :
            /\ rets[i].exc = ""
            /\ IsNutrition(rets[i].value)
            /\ NonNegative(rets[i].value)

\* a table match, an adjusted and an unadjusted answer of the lookup, and the
\* heuristic each returned
C1_Witness ==
    /\ op = "get_food_nutrition"
    /\ Len(rets) > 0
    /\ args.food_name = "whole milk"
    /\ args.amount = RInt(40) /\ args.unit = "oz"
    /\ rets[1].line = 328
    /\ rets[1].value.fat.n > 0

\* C2: when the external lookup fails (network error or timeout, malformed
\* body, non-200 status) for a food with no known-food match,
\* get_food_nutrition does not raise and returns the heuristic estimate.
C2_LookupFailureIsNoData ==
    LET food   == Strip(Lower(args.food_name))
        grams  == IF args.unit # "" THEN convert_to_grams(portion_sizes, args.amount, args.unit)
                  ELSE RMul(args.amount, RInt(100))
        failed == \/ env.resp.exc # "" \/ env.resp.status_code # 200 \/ ~env.resp.json_ok
                  \/ search_food(env.resp).exc # ""
                  \/ usda_float_exc(usda_floats(search_food(env.resp).data)) # ""
    IN  (/\ op = "get_food_nutrition"
         /\ food \notin IceAliases
         /\ FirstMatch(standard_nutrition, food) = 0
         /\ failed) =>
            \A i \in 1..Len(rets) :
                /\ rets[i].exc = ""
                /\ rets[i].value = _generic_nutrition_estimate(food, RDiv(grams, RInt(100)))

\* C7: for the food names ice, ice cube, ice cubes and water,
\* get_food_nutrition returns calories, protein, fat and carbs all 0 for
\* every quantity and unit, and does not call the external lookup.
C7_IceAndWaterAreZero ==
    (op = "get_food_nutrition" /\ args.food_name \in {"ice", "ice cube", "ice cubes", "water"}) =>
        \A i \in 1..Len(rets) :
            /\ rets[i].exc = ""
            /\ AllZero(rets[i].value)
            /\ rets[i].calls = <<>>

C7_Witness ==
    /\ op = "get_food_nutrition"
    /\ Len(rets) > 0
    /\ args.food_name = "ice cubes"
    /\ args.amount = RInt(2) /\ args.unit = "kg"
    /\ AllZero(rets[1].value)
    /\ rets[1].calls = <<>>

\* C8: for a food name containing 'cola' or 'coke' that matches the
\* known-food table, the factor is 3.3 when the unit is empty, whatever the
\* quantity, and min(grams/100, 10) when a unit is given; the returned fields
\* are the matched entry's per-100g values times that factor, so 'coca-cola'
\* with no unit yields 123.75 calories.
C8_ColaFactor ==
    LET food  == Strip(Lower(args.food_name))
        hit   == FirstMatch(standard_nutrition, food)
        grams == convert_to_grams(portion_sizes, args.amount, args.unit)
        f     == IF args.unit = "" THEN R(33, 10) ELSE RMin(RDiv(grams, RInt(100)), RInt(10))
        e     == standard_nutrition[hit]
    IN  (/\ op = "get_food_nutrition"
         /\ In("cola", food) \/ In("coke", food)
         /\ hit # 0) =>
            \A i \in 1..Len(rets) :
                /\ rets[i].exc = ""
                /\ rets[i].value = Nutr(Round2(RMul(e.calories, f)), Round2(RMul(e.protein, f)),
                                        Round2(RMul(e.fat, f)), Round2(RMul(e.carbs, f)))
                /\ (args.food_name = "coca-cola" /\ args.unit = "") =>
                        rets[i].value.calories = R(12375, 100)

\* 'coca-cola', quantity 12, no unit: 123.75 calories
C8_Witness ==
    /\ op = "get_food_nutrition"
    /\ Len(rets) > 0
    /\ args.food_name = "coca-cola" /\ args.amount = RInt(12) /\ args.unit = ""
    /\ rets[1].value.calories = R(12375, 100)

\* the multiplier the claim gives for a unit, 0 for a unit it does not list
ClaimedMultiplier(u) ==
    IF u \in {"g", "gram", "grams"} THEN 1
    ELSE IF u \in {"kg", "kilogram", "kilograms"} THEN 1000
    ELSE IF u \in {"cup", "cups"} THEN 240
    ELSE IF u \in {"tbsp", "tablespoon", "tablespoons"} THEN 15
    ELSE IF u \in {"tsp", "teaspoon", "teaspoons"} THEN 5
    ELSE IF u \in {"ml", "milliliter"} THEN 1
    ELSE IF u \in {"piece", "pieces"}
         THEN (IF "piece" \in DOMAIN portion_sizes THEN portion_sizes["piece"] ELSE 30)
    ELSE IF u \in {"slice", "slices"}
         THEN (IF "slice" \in DOMAIN portion_sizes THEN portion_sizes["slice"] ELSE 30)
    ELSE 0

\* C10: convert_to_grams(q, u) is q times the fixed multiplier of u (g 1,
\* kg 1000, cup 240, tbsp 15, tsp 5, ml 1, piece and slice from the
\* portion-size table), whatever the case of u and for the plural and long
\* forms; for a unit outside the table it is q, and it never raises
\* (2 kg -> 2000, 1 cup -> 240, 3 unknownunit -> 3).
C10_ConvertToGrams ==
    LET u == Lower(args.unit)
        q == args.amount
    IN  op = "convert_to_grams" =>
            \A i \in 1..Len(rets) :
                /\ rets[i].exc = ""
                /\ ClaimedMultiplier(u) # 0 =>
                        rets[i].value = RMul(q, RInt(ClaimedMultiplier(u)))
                /\ u \notin KnownUnits => rets[i].value = q
                /\ (q = RInt(2) /\ args.unit = "kg") => rets[i].value = RInt(2000)
                /\ (q = RInt(1) /\ args.unit = "cup") => rets[i].value = RInt(240)
                /\ (q = RInt(3) /\ args.unit = "unknownunit") => rets[i].value = RInt(3)

\* 2 pieces in capitals: 100 g, from the portion-size table
C10_Witness ==
    /\ op = "convert_to_grams"
    /\ Len(rets) > 0
    /\ args.unit = "Piece" /\ args.amount = RInt(2)
    /\ rets[1].value = RInt(100)

\* the ceiling the claim gives for a dish name
ClaimedCeiling(name) ==
    IF In("curry", name) THEN 900
    ELSE IF In("mac", name) /\ In("cheese", name) THEN 700
    ELSE IF In("salad", name) THEN 500
    ELSE IF In("soup", name) THEN 400
    ELSE 1200

\* the four nutrition fields of a record times a ratio
TimesRatio(v, ratio) ==
    Nutr(RMul(v.calories, ratio), RMul(v.protein, ratio), RMul(v.fat, ratio),
         RMul(v.carbs, ratio))
FourFields(v) == Nutr(v.calories, v.protein, v.fat, v.carbs)

\* every result against the records of the loop, their calorie sum, the
\* ceiling and the ratio ceiling / sum
RescaledAsClaimed(details, raw_cal, ceiling, ratio) ==
    \A i \in 1..Len(rets) :
        /\ rets[i].exc = ""
        /\ Len(rets[i].ingredients) = Len(details)
        /\ IF RGt(raw_cal, RInt(2 * ceiling))
           THEN /\ rets[i].total_nutrition.calories = RInt(ceiling)
                /\ \A f \in {"protein", "fat", "carbs"} :
                      rets[i].total_nutrition[f] = Round2(RMul(SumField(details, f), ratio))
                /\ \A k \in 1..Len(details) :
                      FourFields(rets[i].ingredients[k]) = TimesRatio(details[k], ratio)
           ELSE /\ rets[i].ingredients = details
                /\ \A f \in {"calories", "protein", "fat", "carbs"} :
                      rets[i].total_nutrition[f] = Round2(SumField(details, f))
CeilingAsClaimed(details, raw_cal, ceiling) ==
    RescaledAsClaimed(details, raw_cal, ceiling, RDiv(RInt(ceiling), raw_cal))
\* the loop over the ingredients ended without an exception
LoopAsClaimed(raw, ceiling) ==
    raw.exc = "" =>
        CeilingAsClaimed(raw.details, SumField(raw.details, "calories"), ceiling)

\* C5: in _analyze_ingredients_list, when the dish name matches no known-food
\* entry and the raw sum of ingredient calories exceeds twice the ceiling of
\* the dish (curry 900, else mac and cheese 700, else salad 500, else soup
\* 400, else 1200), the total calories are the ceiling and every ingredient's
\* four fields and the total's protein, fat and carbs are multiplied by
\* ceiling/rawTotal (the totals then rounded to 2 decimals); when the raw sum
\* is at most twice the ceiling nothing is rescaled.
C5_CeilingRescale ==
    (/\ op = "_analyze_ingredients_list"
     /\ Len(rets) > 0
     /\ FirstMatch(standard_nutrition, Lower(args.dish_name)) = 0) =>
        LoopAsClaimed(analyze_loop(standard_nutrition, portion_sizes, args.ing_list,
                                   env.resp),
                      ClaimedCeiling(Lower(args.dish_name)))

\* a soup of 2 kg chicken and salt: 3300 + 100 raw calories against the
\* ceiling 400, rescaled to 400
C5_Witness ==
    /\ op = "_analyze_ingredients_list"
    /\ Len(rets) > 0
    /\ args.dish_name = "lentil soup"
    /\ args.ing_list = <<"2 kg chicken", "salt">>
    /\ rets[1].rescaled
    /\ rets[1].total_nutrition.calories = RInt(400)
    /\ RLt(rets[1].ingredients[2].calories, RInt(100))

\* C6: in every result of _analyze_ingredients_list each field of
\* total_nutrition is the sum of that field over the returned ingredient
\* records, rounded to 2 decimals: without rescaling, after the ceiling
\* rescaling, and on the known-dish path.
C6_TotalIsSumOfIngredients ==
    op = "_analyze_ingredients_list" =>
        \A i \in 1..Len(rets) :
            rets[i].exc = "" =>
                \A f \in {"calories", "protein", "fat", "carbs"} :
                    rets[i].total_nutrition[f] = Round2(SumField(rets[i].ingredients, f))

\* a rescaled curry of two ingredients with fat in it
C6_Witness ==
    /\ op = "_analyze_ingredients_list"
    /\ Len(rets) > 0
    /\ args.dish_name = "Thai Curry"
    /\ args.ing_list = <<"2 kg chicken", "320g beef">>
    /\ rets[1].rescaled
    /\ rets[1].total_nutrition.fat.n > 0

\* no extractor identifies a dish or a food in the text: the spaCy model
\* finds no FOOD entity, extract_food_with_ner finds nothing by entity, by
\* pattern or by word, and the extraction model returns no item
NothingRecognized ==
    /\ food_ents(env.ents) = <<>>
    /\ extract_food_with_ner(env.ents, args.text) = <<>>
    /\ extract_food_with_llm(env.phi4) = [exc |-> "", food_data |-> <<>>]

\* C3: when process_text, with use_standard_recipe true, is given a text in
\* which no extractor identifies a dish or a food, it returns None: it does
\* not raise and it returns no result that holds a food or dish entry.
C3_NothingRecognizedIsNone ==
    (op = "process_text" /\ args.use_standard_recipe /\ NothingRecognized) =>
        \A i \in 1..Len(rets) : rets[i].exc = "" /\ rets[i].type = "None"

\* a name the dish resolver turns into a dish entry: it looks like a dish and
\* the recipe store or the generative fallback gives ingredients for it
Resolvable(name) ==
    /\ is_probably_dish(common_dish_keywords, name)
    /\ \/ Len(search_recipe_in_db(env.db, name).ingredients) > 0
       \/ Len(generate_recipe_with_llm(recipe_chat(env.mistral, name))) > 0

\* the extracted names are one resolvable dish name and one non-dish name
OneDishOneOther ==
    LET names == extract_dish_names(method, env.ents, args.text)
    IN  /\ Len(names) = 2
        /\ \E i, j \in 1..2 :
              /\ i # j
              /\ Resolvable(names[i])
              /\ ~is_probably_dish(common_dish_keywords, names[j])

\* C4: process_text with use_standard_recipe true returns the bare dish
\* exactly when one dish was resolved and the standalone list is empty, and
\* a combined result in every other case; when the extracted names are one
\* resolvable dish name and one non-dish name the result is combined with
\* exactly one dish entry and exactly one standalone entry, whichever
\* extraction method is configured.
C4_OneDishOneStandalone ==
    (op = "process_text" /\ args.use_standard_recipe) =>
        \A i \in 1..Len(rets) :
            /\ rets[i].exc = "" =>
                  /\ rets[i].type \in {"dish", "combined"}
                  /\ rets[i].type = "dish" <=>
                         (Len(rets[i].dishes) = 1 /\ Len(rets[i].other_foods) = 0)
            /\ OneDishOneOther =>
                  /\ rets[i].exc = ""
                  /\ rets[i].type = "combined"
                  /\ Len(rets[i].dishes) = 1
                  /\ Len(rets[i].other_foods) = 1

\* the leading numeric segment of a line: the digits, "/", "." and blanks
\* its stripped text starts with
LeadingSegment(line) == SubSeq(Strip(line), 1, RunLength(IsQtyChar, Strip(line), 1))
StartsWithNumber(line) == Len(LeadingSegment(line)) > 0
\* the text after the segment, the word it starts with, and the rest
AfterSegment(line) ==
    SubSeq(Strip(line), Len(LeadingSegment(line)) + 1, Len(Strip(line)))
WordAfterSegment(line) ==
    SubSeq(AfterSegment(line), 1, RunLength(IsLetter, AfterSegment(line), 1))
AfterWord(line) ==
    SubSeq(AfterSegment(line), Len(WordAfterSegment(line)) + 1, Len(AfterSegment(line)))

\* the places of a token where a "/" separates two numbers, the second not 0
FractionBars(tok) ==
    {k \in 1..Len(tok) :
        /\ CharAt(tok, k) = "/"
        /\ ParseFloat(SubSeq(tok, 1, k - 1)).ok
        /\ ParseFloat(SubSeq(tok, k + 1, Len(tok))).ok
        /\ ParseFloat(SubSeq(tok, k + 1, Len(tok))).value.n # 0}

\* what the claim lets one token contribute
ClaimedTokenValue(tok) ==
    IF ParseFloat(tok).ok THEN ParseFloat(tok).value
    ELSE IF FractionBars(tok) # {}
    THEN RDiv(ParseFloat(SubSeq(tok, 1, (CHOOSE k \in FractionBars(tok) : TRUE) - 1)).value,
              ParseFloat(SubSeq(tok, (CHOOSE k \in FractionBars(tok) : TRUE) + 1,
                                Len(tok))).value)
    ELSE RInt(1)

RECURSIVE ClaimedSum(_)
ClaimedSum(tokens) ==
    IF Len(tokens) = 0 THEN RInt(0)
    ELSE RAdd(ClaimedSum(SubSeq(tokens, 1, Len(tokens) - 1)),
              ClaimedTokenValue(tokens[Len(tokens)]))

\* C11: for a line that starts with a numeric segment, parse_ingredient
\* returns as quantity the sum over the blank-separated tokens of the segment
\* (an integer or decimal its value, a fraction a/b the quotient, any other
\* token 1.0); the word directly after the number is the unit and the
\* remaining text the food name ('200g chicken breast' -> (200.0, 'g',
\* 'chicken breast'), '1 1/2 cups flour' -> (1.5, 'cups', 'flour')).
C11_QuantityIsSumOfTokens ==
    (op = "parse_ingredient" /\ StartsWithNumber(args.ingredient_str)) =>
        \A i \in 1..Len(rets) :
            /\ rets[i].value.qty = ClaimedSum(Split(LeadingSegment(args.ingredient_str)))
            /\ (/\ WordAfterSegment(args.ingredient_str) # ""
                /\ StartsWith(AfterWord(args.ingredient_str), " ")) =>
                    /\ rets[i].value.unit = Lower(WordAfterSegment(args.ingredient_str))
                    /\ rets[i].value.food_name = Strip(Lower(AfterWord(args.ingredient_str)))
            /\ args.ingredient_str = "200g chicken breast" =>
                    rets[i].value = [qty |-> RInt(200), unit |-> "g",
                                     food_name |-> "chicken breast"]
            /\ args.ingredient_str = "1 1/2 cups Flour" =>
                    rets[i].value = [qty |-> R(3, 2), unit |-> "cups", food_name |-> "flour"]

NoUpper(s) == \A i \in 1..Len(s) : \A k \in 1..26 : UpperChars[k] # CharAt(s, i)

\* C12: parse_ingredient never raises; for a line with no leading number it
\* returns (1.0, '', the line lower-cased); for every line the unit and the
\* food name are lower-case and the quantity is >= 0.
C12_ParseNeverRaises ==
    op = "parse_ingredient" =>
        \A i \in 1..Len(rets) :
            /\ rets[i].exc = ""
            /\ ~StartsWithNumber(args.ingredient_str) =>
                    rets[i].value = [qty |-> RInt(1), unit |-> "",
                                     food_name |-> Lower(args.ingredient_str)]
            /\ NoUpper(rets[i].value.unit)
            /\ NoUpper(rets[i].value.food_name)
            /\ rets[i].value.qty.n >= 0 /\ rets[i].value.qty.d > 0

\* a line of capitals without a number, returned lower-cased with quantity 1
C12_Witness ==
    /\ op = "parse_ingredient"
    /\ Len(rets) > 0
    /\ args.ingredient_str = "Olive Oil"
    /\ rets[1].value = [qty |-> RInt(1), unit |-> "", food_name |-> "olive oil"]

\* the categories of the claim in their fixed order, with their keywords
CategoryKeywords ==
    << [category |-> "meat", words |-> {"chicken", "beef", "pork", "fish", "meat", "turkey"}],
       [category |-> "grain",
        words |-> {"rice", "pasta", "noodle", "bread", "cereal", "grain"}],
       [category |-> "vegetable",
        words |-> {"vegetable", "carrot", "broccoli", "spinach", "lettuce"}],
       [category |-> "fruit", words |-> {"fruit", "apple", "orange", "banana", "berry"}],
       [category |-> "dairy", words |-> {"milk", "cheese", "yogurt", "cream", "dairy"}],
       [category |-> "oil", words |-> {"oil", "butter", "margarine", "lard"}],
       [category |-> "beverage",
        words |-> {"drink", "beverage", "water", "juice", "soda", "coke", "cola"}] >>

\* the categories with a keyword contained in the lower-cased name
MatchingCategories(name) ==
    {k \in 1..Len(CategoryKeywords) :
        \E w \in CategoryKeywords[k].words : In(w, Lower(name))}

\* the category the claim gives a density when no keyword matches
DensityCategory(c) ==
    IF c.n > 800 * c.d THEN "oil"
    ELSE IF c.n > 300 * c.d THEN "meat"
    ELSE IF c.n > 200 * c.d THEN "grain"
    ELSE IF c.n < 30 * c.d THEN "vegetable"
    ELSE "unknown"

\* C13: _identify_food_category returns the first category, in the order
\* meat, grain, vegetable, fruit, dairy, oil, beverage, whose keyword list
\* has a word contained in the lower-cased name, whatever the density; only
\* when no keyword matches it uses the density: > 800 oil, else > 300 meat,
\* else > 200 grain, else < 30 vegetable, else unknown ('grilled chicken
\* breast' -> meat; an unnamed item at 850 -> oil).
C13_KeywordBeforeDensity ==
    op = "_identify_food_category" =>
        \A i \in 1..Len(rets) :
            /\ rets[i].exc = ""
            /\ MatchingCategories(args.food_name) # {} =>
                   rets[i].value =
                       CategoryKeywords[CHOOSE k \in MatchingCategories(args.food_name) :
                           \A j \in MatchingCategories(args.food_name) : k <= j].category
            /\ MatchingCategories(args.food_name) = {} =>
                   rets[i].value = DensityCategory(args.calories_per_100g)
            /\ args.food_name = "grilled chicken breast" => rets[i].value = "meat"
            /\ (args.food_name = "" /\ args.calories_per_100g = RInt(850)) =>
                   rets[i].value = "oil"

\* a name with an oil and a meat keyword at the density of an oil: meat
C13_Witness ==
    /\ op = "_identify_food_category"
    /\ Len(rets) > 0
    /\ args.food_name = "butter chicken"
    /\ args.calories_per_100g = RInt(850)
    /\ rets[1].value = "meat"

\* an ingredient the claim puts in the main list
ClaimedMain(ing) ==
    \/ \E mk \in main_keywords : In(mk, Lower(ing))
    \/ ~\E sk \in sub_keywords : In(sk, Lower(ing))
ClaimedSecondary(ing) == ~ClaimedMain(ing)

\* C14: classify_ingredients puts every ingredient in exactly one of the two
\* lists: main if it contains a main keyword (even with a secondary keyword
\* too), otherwise secondary if it contains a secondary keyword, otherwise
\* main; each list keeps the order of the input, so main followed by
\* secondary is a permutation of the input.
C14_ClassifyPartitions ==
    op = "classify_ingredients" =>
        \A i \in 1..Len(rets) :
            /\ rets[i].exc = ""
            /\ rets[i].value.main_ings = SelectSeq(args.ing_list, ClaimedMain)
            /\ rets[i].value.sub_ings = SelectSeq(args.ing_list, ClaimedSecondary)
            /\ Len(rets[i].value.main_ings) + Len(rets[i].value.sub_ings)
                   = Len(args.ing_list)

\* a secondary ingredient before one with keywords of both kinds: the second
\* is main, the first secondary
C14_Witness ==
    /\ op = "classify_ingredients"
    /\ Len(rets) > 0
    /\ args.ing_list = <<"1 tsp salt", "garlic chicken">>
    /\ rets[1].value = [main_ings |-> <<"garlic chicken">>, sub_ings |-> <<"1 tsp salt">>]

\* the first bracketed literal of a reply: from its first "[" to the first
\* "]" after it ("" when there is none)
FirstOpener(content) == 1 + RunLength(LAMBDA ch : ch # "[", content, 1)
FirstCloserFrom(content, i) == i + RunLength(LAMBDA ch : ch # "]", content, i)
FirstArrayLiteral(content) ==
    IF FirstCloserFrom(content, FirstOpener(content)) <= Len(content)
    THEN SubSeq(content, FirstOpener(content), FirstCloserFrom(content, FirstOpener(content)))
    ELSE ""

\* a parsed JSON value that is an array of strings
IsArrayOfStrings(parsed) ==
    /\ parsed.ok
    /\ parsed.val.t = "arr"
    /\ \A k \in 1..Len(parsed.val.items) : parsed.val.items[k].t = "str"

\* C15: generate_recipe_with_llm never raises; when the reply contains a
\* JSON array of ingredient strings, with or without prose before and after
\* it, it returns the first (at most 7) elements of that array; when the
\* call fails or the reply has no array it returns the empty list.
C15_RecipeFromReply ==
    op = "generate_recipe_with_llm" =>
        \A i \in 1..Len(rets) :
            /\ rets[i].exc = ""
            /\ env.mistral[1].exc # "" => rets[i].value = <<>>
            /\ (env.mistral[1].exc = "" /\ FirstArrayLiteral(env.mistral[1].content) = "")
                   => rets[i].value = <<>>
            /\ (/\ env.mistral[1].exc = ""
                /\ IsArrayOfStrings(json_loads(FirstArrayLiteral(env.mistral[1].content))))
                   => rets[i].value =
                          Prefix(json_loads(FirstArrayLiteral(env.mistral[1].content))
                                     .val.items, 7)

\* the cleaned food name of a get_food_nutrition call, its factor, and the
\* answer of the external lookup for it
ResolvedFood == Strip(Lower(args.food_name))
ResolvedFactor == get_food_nutrition_factor(portion_sizes, args.amount, args.unit)
LookupData == search_food(env.resp)
\* the floats of the data it returned
LookupFloats == usda_floats(LookupData.data)
LookupValues == usda_values(LookupFloats)
\* neither an ice alias nor a match of the known-food table
NoSourceBefore ==
    /\ ResolvedFood \notin IceAliases
    /\ FirstMatch(standard_nutrition, ResolvedFood) = 0
\* the places of a collaborator in the calls of a result
CallsOf(r, c) == {k \in 1..Len(r.calls) : r.calls[k] = c}

\* the sources of every result, for a name that is an ice alias or not, has
\* no earlier source or has one, and the answer of the lookup
SourcesOrdered(is_ice, none_before, lookup) ==
    \A i \in 1..Len(rets) :
        /\ Cardinality(CallsOf(rets[i], "search_food")) <= 1
        /\ is_ice => (rets[i].line = 282 /\ rets[i].calls = <<>>)
        /\ (~is_ice /\ ~none_before) => (rets[i].line = 303 /\ rets[i].calls = <<>>)
        /\ CallsOf(rets[i], "search_food") # {} => none_before
        /\ none_before => CallsOf(rets[i], "search_food") = {1}
        /\ CallsOf(rets[i], "_generic_nutrition_estimate") # {} =>
               /\ none_before
               /\ lookup.exc = "" /\ ~lookup.found
               /\ rets[i].calls = <<"search_food", "_generic_nutrition_estimate">>
        /\ rets[i].line = 343 <=> CallsOf(rets[i], "_generic_nutrition_estimate") # {}
        /\ (none_before /\ lookup.exc = "" /\ lookup.found) =>
               rets[i].line \in {312, 328, 337}

\* C16: within one get_food_nutrition call the sources are consulted in the
\* order ice alias, known-food table, external lookup, heuristic: the lookup
\* is called at most once and only when the name is no ice alias and matches
\* no table entry; the heuristic is used only when the lookup returned no
\* data; a table match returns without an external call.
C16_SourcesInOrder ==
    (op = "get_food_nutrition" /\ Len(rets) > 0) =>
        SourcesOrdered(ResolvedFood \in IceAliases, NoSourceBefore, LookupData)

\* a food of no table entry, the lookup answering without a food record: one
\* lookup, then the heuristic
C16_Witness ==
    /\ op = "get_food_nutrition"
    /\ Len(rets) > 0
    /\ args.food_name = "lentils"
    /\ env.resp = Response("", 200, TRUE, TRUE, <<>>)
    /\ rets[1].calls = <<"search_food", "_generic_nutrition_estimate">>

\* the plausible calorie range and the largest factor the claims give a
\* category
ClaimedRange(category) ==
    CASE category = "meat" -> <<100, 300>>
      [] category = "grain" -> <<100, 200>>
      [] category = "vegetable" -> <<20, 80>>
      [] category = "fruit" -> <<40, 100>>
      [] category = "dairy" -> <<50, 400>>
      [] category = "oil" -> <<800, 900>>
      [] category = "beverage" -> <<0, 50>>
      [] OTHER -> <<50, 300>>
ClaimedMaxFactor(category) ==
    CASE category = "meat" -> 5
      [] category = "grain" -> 8
      [] category = "vegetable" -> 10
      [] category = "fruit" -> 6
      [] category = "dairy" -> 8
      [] category = "oil" -> 2
      [] category = "beverage" -> 15
      [] OTHER -> 10

\* the category of the looked-up food, and whether its calorie density c is
\* below half the minimum or above twice the maximum of the range
LookupCategory == _identify_food_category(ResolvedFood, LookupValues.calories)
Implausible(c, range) == 2 * c.n < range[1] * c.d \/ c.n > 2 * range[2] * c.d
\* the lookup was consulted and returned data whose four values are numbers
LookupNumbers(lookup, floats) ==
    /\ lookup.exc = "" /\ lookup.found
    /\ \A f \in {"calories", "protein", "fat", "carbs"} :
           floats[f].exc = "" /\ IsNumber(floats[f].value)
LookupGaveData == NoSourceBefore /\ LookupNumbers(LookupData, LookupFloats)
\* midpoint / max(c, 1)
ClaimedRatio(c, range) == RDiv(R(range[1] + range[2], 2), RMax(c, RInt(1)))
TimesBoth(v, ratio, factor) == Round2(RMul(RMul(v, ratio), factor))

\* the results the claim gives implausible data: the values the lookup
\* returned, the range of their category, the factor of the call
AdjustedAsClaimed(values, range, factor) ==
    Implausible(values.calories, range) =>
        \A i \in 1..Len(rets) :
            /\ rets[i].exc = ""
            /\ rets[i].value.calories =
                   Round2(RMul(R(range[1] + range[2], 2), factor))
            /\ \A f \in {"protein", "fat", "carbs"} :
                   rets[i].value[f] =
                       TimesBoth(values[f], ClaimedRatio(values.calories, range), factor)

\* C17: when the external lookup returns data whose calorie density c is
\* below 0.5 x the minimum or above 2 x the maximum of the range of its
\* category, get_food_nutrition returns calories = midpoint x factor and
\* protein, fat, carbs = returned value x (midpoint / max(c, 1)) x factor
\* (each rounded to 2 decimals), the factor not clamped.
C17_ImplausibleDataAdjusted ==
    (op = "get_food_nutrition" /\ Len(rets) > 0 /\ LookupGaveData) =>
        AdjustedAsClaimed(LookupValues, ClaimedRange(LookupCategory), ResolvedFactor)

\* 'tofu' at 2100 kcal per 100 g is taken for an oil: 200 servings give
\* 200 x 850 calories
C17_Witness ==
    /\ op = "get_food_nutrition"
    /\ Len(rets) > 0
    /\ args.food_name = "tofu" /\ args.amount = RInt(200) /\ args.unit = ""
    /\ LookupGaveData /\ LookupValues.calories = RInt(2100)
    /\ rets[1].value.calories = RInt(170000)
    /\ rets[1].value.fat.n > 0

\* the results the claim gives plausible data: the values the lookup
\* returned, the range and the largest factor of their category, the factor
\* of the call
ClampedAsClaimed(values, range, max_factor, factor) ==
    ~Implausible(values.calories, range) =>
        \A i \in 1..Len(rets) :
            /\ rets[i].exc = ""
            /\ \A f \in {"calories", "protein", "fat", "carbs"} :
                   rets[i].value[f] = Round2(RMul(values[f], RMin(factor, max_factor)))
            /\ ~RGt(rets[i].value.calories, RMul(values.calories, max_factor))
\* the claim's range and largest factor of a category
ClampedInCategory(values, category, factor) ==
    ClampedAsClaimed(values, ClaimedRange(category),
                     RInt(ClaimedMaxFactor(category)), factor)

\* C18: when the external lookup returns data whose calorie density lies
\* within [0.5 x minimum, 2 x maximum] of the range of its category,
\* get_food_nutrition scales the four returned per-100g values by
\* min(factor, maxFactor(category)), maxFactor being meat 5, grain 8,
\* vegetable 10, fruit 6, dairy 8, oil 2, beverage 15, unknown 10 (each
\* rounded to 2 decimals); so the calories never exceed density x maxFactor.
C18_PlausibleDataClamped ==
    (op = "get_food_nutrition" /\ Len(rets) > 0 /\ LookupGaveData) =>
        ClampedInCategory(LookupValues, LookupCategory, ResolvedFactor)

\* 12 servings of pork chop at 250 kcal per 100 g count as 5: 1250 calories
C18_Witness ==
    /\ op = "get_food_nutrition"
    /\ Len(rets) > 0
    /\ args.food_name = "pork chop" /\ args.amount = RInt(12) /\ args.unit = ""
    /\ LookupGaveData /\ LookupValues.calories = RInt(250)
    /\ rets[1].value.calories = RInt(1250)
    /\ rets[1].value.protein = RInt(100)

\* the per-100g profile the claim gives the first matching keyword group
ClaimedProfile(food) ==
    IF \E w \in {"chicken", "beef", "pork", "fish", "meat"} : In(w, food)
    THEN <<R(180, 1), R(25, 1), R(10, 1), R(0, 1)>>
    ELSE IF \E w \in {"rice", "pasta", "noodle", "bread"} : In(w, food)
    THEN <<R(130, 1), R(4, 1), R(1, 1), R(25, 1)>>
    ELSE IF \E w \in {"vegetable", "carrot", "broccoli", "spinach"} : In(w, food)
    THEN <<R(30, 1), R(2, 1), R(3, 10), R(6, 1)>>
    ELSE IF \E w \in {"fruit", "apple", "orange", "banana"} : In(w, food)
    THEN <<R(60, 1), R(8, 10), R(2, 10), R(15, 1)>>
    ELSE IF \E w \in {"cheese", "milk", "yogurt", "cream", "dairy"} : In(w, food)
    THEN <<R(130, 1), R(7, 1), R(9, 1), R(5, 1)>>
    ELSE <<R(100, 1), R(5, 1), R(5, 1), R(10, 1)>>

\* the lookup returned without data
LookupGaveNothing(lookup) == lookup.exc = "" /\ ~lookup.found
\* every result is the profile times the factor, at most 1440 calories
ProfileAsClaimed(profile, factor) ==
    \A i \in 1..Len(rets) :
        /\ rets[i].exc = ""
        /\ rets[i].value = Nutr(Round2(RMul(profile[1], factor)),
                                Round2(RMul(profile[2], factor)),
                                Round2(RMul(profile[3], factor)),
                                Round2(RMul(profile[4], factor)))
        /\ ~RGt(rets[i].value.calories, RInt(1440))

\* C19: when there is no table match and the external lookup returns
\* nothing, the result is the per-100g profile of the first matching keyword
\* group (meat/fish 180/25/10/0, grain 130/4/1/25, vegetable 30/2/0.3/6,
\* fruit 60/0.8/0.2/15, dairy 130/7/9/5, otherwise 100/5/5/10) times
\* min(factor, 8), rounded to 2 decimals; so a heuristic result never
\* exceeds 8 x 180 = 1440 calories.
C19_HeuristicProfile ==
    (/\ op = "get_food_nutrition"
     /\ Len(rets) > 0
     /\ NoSourceBefore
     /\ LookupGaveNothing(LookupData)) =>
        ProfileAsClaimed(ClaimedProfile(ResolvedFood), RMin(ResolvedFactor, RInt(8)))

\* 200 servings of pork chop without data: 8 x 180 calories
C19_Witness ==
    /\ op = "get_food_nutrition"
    /\ Len(rets) > 0
    /\ args.food_name = "pork chop" /\ args.amount = RInt(200) /\ args.unit = ""
    /\ env.resp = Response("", 500, FALSE, FALSE, <<>>)
    /\ rets[1].line = 343
    /\ rets[1].value.calories = RInt(1440)

\* the claim's match of a known-food entry and a dish name
ClaimedDishMatch(key, name) == In(key, name) \/ In(name, key)
ClaimedEntriesOf(name) ==
    {k \in 1..Len(standard_nutrition) : ClaimedDishMatch(standard_nutrition[k].key, name)}
ClaimedDishEntries == ClaimedEntriesOf(Lower(args.dish_name))
ClaimedFirstOf(entries) ==
    standard_nutrition[CHOOSE k \in entries : \A j \in entries : k <= j]
ClaimedFirstEntry == ClaimedFirstOf(ClaimedDishEntries)

\* the claim's portion factor of a dish name
ClaimedPortion(name) ==
    IF In("mac", name) /\ In("cheese", name) THEN R(3, 1)
    ELSE IF In("curry", name) THEN R(4, 1)
    ELSE IF In("coke", name) \/ In("cola", name) THEN R(33, 10)
    ELSE R(5, 2)

\* every result is one record of the entry times the portion, nothing called
BypassAsClaimed(entry, portion) ==
    \A i \in 1..Len(rets) :
        /\ rets[i].exc = ""
        /\ rets[i].calls = <<>>
        /\ Len(rets[i].ingredients) = 1
        /\ \A f \in {"calories", "protein", "fat", "carbs"} :
               /\ rets[i].ingredients[1][f] = rets[i].total_nutrition[f]
               /\ rets[i].total_nutrition[f] = Round2(RMul(entry[f], portion))

\* C20: if the dish name matches a known-food entry (the key is contained
\* in the name or the name in the key), _analyze_ingredients_list ignores
\* the ingredient list, parses no ingredient, looks nothing up, and returns
\* exactly one ingredient record whose four values, equal to the total, are
\* the first matching entry's values times the portion factor (3.0 for mac
\* and cheese, else 4.0 for curry, else 3.3 for coke or cola, else 2.5).
C20_KnownDishBypass ==
    (op = "_analyze_ingredients_list" /\ Len(rets) > 0 /\ ClaimedDishEntries # {}) =>
        BypassAsClaimed(ClaimedFirstEntry, ClaimedPortion(Lower(args.dish_name)))

\* "cola float" with three ingredients and a failing lookup: one record of
\* the entry "cola", 3.3 times its values
C20_Witness ==
    /\ op = "_analyze_ingredients_list"
    /\ Len(rets) > 0
    /\ args.dish_name = "cola float"
    /\ Len(args.ing_list) = MaxIngredients
    /\ env.resp.exc # ""
    /\ Len(rets[1].ingredients) = 1
    /\ rets[1].ingredients[1].food_name = "cola"
    /\ rets[1].total_nutrition.calories = Round2(RMul(ClaimedFirstEntry.calories, R(33, 10)))

\* the names process_text extracts from the text, the answers of the recipe
\* store and of the generative fallback for a name
ExtractedNames == extract_dish_names(method, env.ents, args.text)
StoreYields(d) == Len(search_recipe_in_db(env.db, d).ingredients) > 0
FallbackYields(d) == Len(generate_recipe_with_llm(recipe_chat(env.mistral, d))) > 0
JudgedDish(d) == In(" ", Lower(d)) \/ \E kw \in CommonDishKeywords : In(kw, Lower(d))

\* the collaborator calls the claim allows for one name judged a dish
ClaimedCallsOfName(d) ==
    IF StoreYields(d) THEN <<"search_recipe_in_db:" \o d>>
    ELSE <<"search_recipe_in_db:" \o d, "ollama.chat:mistral:" \o d>>

RECURSIVE ClaimedResolverCalls(_)
ClaimedResolverCalls(names) ==
    IF Len(names) = 0 THEN <<>>
    ELSE (IF JudgedDish(Head(names)) THEN ClaimedCallsOfName(Head(names)) ELSE <<>>)
             \o ClaimedResolverCalls(Tail(names))

RECURSIVE ClaimedSources(_)
\* the sources of the dish entries the claim expects, in the order of the names
ClaimedSources(names) ==
    IF Len(names) = 0 THEN <<>>
    ELSE (IF ~JudgedDish(Head(names)) THEN <<>>
          ELSE IF StoreYields(Head(names)) THEN <<"database">>
          ELSE IF FallbackYields(Head(names)) THEN <<"llm">>
          ELSE <<>>)
             \o ClaimedSources(Tail(names))

Unresolved(d) == JudgedDish(d) /\ ~StoreYields(d) /\ ~FallbackYields(d)
IsPrefix(s, t) == Len(s) <= Len(t) /\ SubSeq(t, 1, Len(s)) = s

\* C21: for each name judged a dish, process_text queries the recipe store
\* first and calls the generative fallback only when the store yields no
\* ingredients; the dish entry is recorded with source "database" or "llm"
\* accordingly; when both yield no ingredients no dish entry is created and
\* the name is appended to the standalone list with quantity 1.0.
C21_StoreBeforeFallback ==
    (op = "process_text" /\ args.use_standard_recipe) =>
        \A i \in 1..Len(rets) :
            /\ IsPrefix(rets[i].calls, ClaimedResolverCalls(ExtractedNames))
            /\ rets[i].exc = "" =>
                  /\ rets[i].calls = ClaimedResolverCalls(ExtractedNames)
                  /\ [k \in 1..Len(rets[i].dishes) |-> rets[i].dishes[k].source]
                         = ClaimedSources(ExtractedNames)
                  /\ \A n \in 1..Len(ExtractedNames) :
                         Unresolved(ExtractedNames[n]) =>
                             \E k \in 1..Len(rets[i].other_foods) :
                                 rets[i].other_foods[k] =
                                     FoodItem(ExtractedNames[n], RInt(1))

\* "chicken soup" is not in the store, the fallback gives a recipe: the
\* store is queried, then the recipe model, and the entry has source "llm"
C21_Witness ==
    /\ op = "process_text" /\ args.use_standard_recipe
    /\ Len(rets) > 0
    /\ ExtractedNames = <<"chicken soup", "apple">>
    /\ rets[1].calls = <<"search_recipe_in_db:chicken soup",
                         "ollama.chat:mistral:chicken soup">>
    /\ Len(rets[1].dishes) = 1
    /\ rets[1].dishes[1].source = "llm"

\* the claim's test of a name: a space or a dish keyword in it
SpaceOrKeyword(d) == In(" ", d) \/ \E kw \in CommonDishKeywords : In(kw, d)
CalledFor(r, d) ==
    \E k \in 1..Len(r.calls) :
        r.calls[k] \in {"search_recipe_in_db:" \o d, "ollama.chat:mistral:" \o d}

\* C22: an extracted name is routed to the dish resolver if and only if it
\* contains a space or one of the dish keywords as a substring; every other
\* name goes straight to the standalone list with quantity 1.0, and neither
\* the recipe store nor the generative fallback is called for it.
C22_DishRouting ==
    (op = "process_text" /\ args.use_standard_recipe) =>
        \A i \in 1..Len(rets) : \A n \in 1..Len(ExtractedNames) :
            /\ rets[i].exc = ""
            /\ SpaceOrKeyword(ExtractedNames[n]) <=>
                   \E k \in 1..Len(rets[i].calls) :
                       rets[i].calls[k] = "search_recipe_in_db:" \o ExtractedNames[n]
            /\ ~SpaceOrKeyword(ExtractedNames[n]) =>
                   /\ ~CalledFor(rets[i], ExtractedNames[n])
                   /\ \E k \in 1..Len(rets[i].other_foods) :
                          rets[i].other_foods[k] = FoodItem(ExtractedNames[n], RInt(1))

\* "chicken soup" has a space and is looked up in the store; "apple" next to
\* it has neither space nor keyword and is a standalone food at once
C22_Witness ==
    /\ op = "process_text" /\ args.use_standard_recipe
    /\ Len(rets) > 0
    /\ ExtractedNames = <<"chicken soup", "apple">>
    /\ CalledFor(rets[1], "chicken soup")
    /\ ~CalledFor(rets[1], "apple")
    /\ rets[1].other_foods = <<FoodItem("apple", RInt(1))>>

\* C23: in every result of process_text no two standalone items have the
\* same name and no standalone item has the name of an identified dish,
\* also when the same name is extracted more than once from the text.
C23_StandaloneDeduplicated ==
    op = "process_text" =>
        \A i \in 1..Len(rets) :
            /\ \A k, m \in 1..Len(rets[i].other_foods) :
                   k # m => rets[i].other_foods[k].food # rets[i].other_foods[m].food
            /\ \A k \in 1..Len(rets[i].other_foods) : \A m \in 1..Len(rets[i].dishes) :
                   rets[i].other_foods[k].food # rets[i].dishes[m].dish_name

\* the number of items the configured extraction gives for the text: the
\* items of the entity extractor, of the generative extractor, or the
\* distinct stripped, lower-cased names of both
NamesOf(items) == {Lower(Strip(items[k].food)) : k \in 1..Len(items)}
ExtractedCount ==
    IF method = "ner" THEN Len(extract_food_with_ner(env.ents, args.text))
    ELSE IF method = "llm" THEN Len(extract_food_with_llm(env.phi4).food_data)
    ELSE Cardinality(NamesOf(extract_food_with_ner(env.ents, args.text))
                         \cup NamesOf(llm_items(extract_food_with_llm(env.phi4).food_data)))

IsRecipeCall(c) ==
    \/ (Len(c) >= 20 /\ SubSeq(c, 1, 20) = "search_recipe_in_db:")
    \/ (Len(c) >= 20 /\ SubSeq(c, 1, 20) = "ollama.chat:mistral:")

\* the record of an item resolved on its own with an empty unit
ResolvedAlone(item) ==
    Detail(item.food_name, item.quantity, "",
           get_food_nutrition(standard_nutrition, portion_sizes, item.food_name,
                              item.quantity, "", env.resp).value)

\* C24: with use_standard_recipe false process_text never queries the recipe
\* store or the generative recipe fallback; it resolves each extracted item
\* on its own with get_food_nutrition and an empty unit, and returns None for
\* no items, a "single" result for exactly one item and otherwise a
\* "multiple" result whose total_nutrition is the field-wise sum of the
\* items' nutrition.
C24_DirectResolution ==
    (op = "process_text" /\ ~args.use_standard_recipe) =>
        \A i \in 1..Len(rets) :
            /\ \A k \in 1..Len(rets[i].calls) : ~IsRecipeCall(rets[i].calls[k])
            /\ Len(rets[i].dishes) = 0 /\ Len(rets[i].other_foods) = 0
            /\ rets[i].exc = ""
            /\ Len(rets[i].items) = ExtractedCount
            /\ rets[i].type = (IF ExtractedCount = 0 THEN "None"
                               ELSE IF ExtractedCount = 1 THEN "single"
                               ELSE "multiple")
            /\ \A k \in 1..Len(rets[i].items) :
                   rets[i].items[k] = ResolvedAlone(rets[i].items[k])
            /\ rets[i].type = "multiple" =>
                   \A f \in {"calories", "protein", "fat", "carbs"} :
                       rets[i].total_nutrition[f] = SumField(rets[i].items, f)

\* the quantity an item reports: its number, the number its string spells,
\* 1.0 for anything else or nothing
ClaimedQuantity(x) ==
    IF ~HasKey(x, "quantity") THEN RInt(1)
    ELSE IF GetKey(x, "quantity").t = "num" THEN GetKey(x, "quantity").q
    ELSE IF GetKey(x, "quantity").t = "str" /\ ParseFloat(Strip(GetKey(x, "quantity").s)).ok
    THEN ParseFloat(Strip(GetKey(x, "quantity").s)).value
    ELSE RInt(1)
ClaimedName(x) == Lower(Strip(GetKey(x, "food").s))
BothLists == args.ner_foods \o args.llm_foods
ClaimedNames == {ClaimedName(BothLists[k]) : k \in 1..Len(BothLists)}
QuantitiesOf(name) ==
    {ClaimedQuantity(BothLists[k]) : k \in {j \in 1..Len(BothLists) : ClaimedName(BothLists[j]) = name}}
ClaimedMaximum(name) ==
    CHOOSE q \in QuantitiesOf(name) : \A r \in QuantitiesOf(name) : ~RLt(q, r)
Pairs(merged) == {<<merged[k].food, merged[k].quantity>> : k \in 1..Len(merged)}

\* every result against the claimed names, the claimed pairs and the pairs
\* of the merge with the lists swapped
MergedAsClaimed(names, claimed, swapped) ==
    \A i \in 1..Len(rets) :
        /\ rets[i].exc = ""
        /\ Len(rets[i].value) = Cardinality(names)
        /\ Pairs(rets[i].value) = claimed
        /\ Pairs(rets[i].value) = swapped
        /\ Pairs(_merge_ner_llm(rets[i].value, rets[i].value)) = Pairs(rets[i].value)

\* C25: _merge_ner_llm returns exactly one entry per distinct stripped,
\* lower-cased food name of either list, with the maximum quantity reported
\* for the name in both lists (an unparsable quantity counts as 1.0); the
\* set of (name, quantity) pairs is the same when the two lists are swapped,
\* and when a list is merged with itself.
C25_MergeIsMaximumUnion ==
    (op = "_merge_ner_llm" /\ Len(rets) > 0) =>
        /\ MergedAsClaimed(ClaimedNames,
                           {<<name, ClaimedMaximum(name)>> : name \in ClaimedNames},
                           Pairs(_merge_ner_llm(llm_items(args.llm_foods),
                                                llm_items(args.ner_foods))))
        /\ Pairs(_merge_ner_llm(llm_items(args.ner_foods), llm_items(args.ner_foods))) =
               Pairs(_merge_ner_llm(llm_items(args.ner_foods), <<>>))

\* "apple" 2 and "rice" 0.5 merged with "Apple " 3 and "rice" 'two': apple 3
\* and rice 1
C25_Witness ==
    /\ op = "_merge_ner_llm"
    /\ Len(rets) > 0
    /\ args.ner_foods = <<FoodEntry("apple", JNum(RInt(2))), FoodEntry("rice", JNum(R(1, 2)))>>
    /\ args.llm_foods = <<FoodEntry("Apple ", JNum(RInt(3))), FoodEntry("rice", JStr("two"))>>
    /\ rets[1].value = <<FoodItem("apple", RInt(3)), FoodItem("rice", RInt(1))>>

\* the entries of the known-food table stored under a name
EntriesUnder(name) ==
    {k \in 1..Len(standard_nutrition) : standard_nutrition[k].key = name}

\* C26: every key of the known-food table resolves to its own entry: for
\* each key k, get_food_nutrition(k, 100, "g") returns exactly the per-100g
\* values stored under k ("rice" yields 130 calories and 28 carbs); no key
\* that comes earlier in the table captures k through the substring match.
C26_KeyResolvesToOwnEntry ==
    (/\ op = "get_food_nutrition"
     /\ args.amount = RInt(100) /\ args.unit = "g"
     /\ EntriesUnder(args.food_name) # {}) =>
        \A i \in 1..Len(rets) : \A k \in EntriesUnder(args.food_name) :
            /\ rets[i].exc = ""
            /\ rets[i].value = Nutr(standard_nutrition[k].calories,
                                    standard_nutrition[k].protein,
                                    standard_nutrition[k].fat,
                                    standard_nutrition[k].carbs)

\* C27: for every dish name and every ingredient list, the total calories
\* _analyze_ingredients_list returns never exceed twice the calorie ceiling
\* of the dish name (curry 900, mac and cheese 700, salad 500, soup 400,
\* otherwise 1200), on the per-ingredient path and on the known-dish bypass.
C27_TotalWithinTwiceCeiling ==
    op = "_analyze_ingredients_list" =>
        \A i \in 1..Len(rets) :
            rets[i].exc = "" =>
                ~RGt(rets[i].total_nutrition.calories,
                     RInt(2 * ClaimedCeiling(Lower(args.dish_name))))

\* a soup of summed ingredients above its ceiling of 400 and within 800,
\* returned as summed
C27_Witness ==
    /\ op = "_analyze_ingredients_list"
    /\ Len(rets) > 0
    /\ args.dish_name = "lentil soup"
    /\ rets[1].exc = "" /\ rets[1].line = 471 /\ ~rets[1].rescaled
    /\ Len(rets[1].ingredients) = MaxIngredients
    /\ RGt(rets[1].total_nutrition.calories, RInt(400))

\* the units convert_to_grams converts
RecognisedUnits ==
    {"g", "gram", "grams", "kg", "kilogram", "kilograms", "oz", "ounce", "ounces", "lb",
     "pound", "pounds", "cup", "cups", "tbsp", "tablespoon", "tablespoons", "tsp",
     "teaspoon", "teaspoons", "ml", "milliliter", "piece", "pieces", "slice", "slices"}

\* C28: the unit parse_ingredient returns is always empty or a unit that
\* convert_to_grams recognises, so that a count followed by a word that is
\* no unit ("2 large eggs") is resolved by get_food_nutrition as 2 standard
\* servings of 100 g (factor 2) and not as 2 grams (factor 0.02).
C28_UnitIsEmptyOrRecognised ==
    op = "parse_ingredient" =>
        \A i \in 1..Len(rets) :
            /\ rets[i].value.unit = "" \/ Lower(rets[i].value.unit) \in RecognisedUnits
            /\ args.ingredient_str = "2 large eggs" =>
                   get_food_nutrition_factor(portion_sizes, rets[i].value.qty,
                                             rets[i].value.unit) = RInt(2)

\* the input a step of the chat takes, and the number it deletes
TypedInput == chat_history'[Len(chat_history) + 1].content
AnalyzeTyped == awaiting_item_confirmation /\ Lower(TypedInput) \in AnalyzeCommands
DeleteTyped ==
    /\ awaiting_item_confirmation
    /\ Lower(TypedInput) \notin AnalyzeCommands
    /\ StartsWith(Lower(TypedInput), "delete")
    /\ ParseInteger(SubSeq(TypedInput, 7, Len(TypedInput))).ok
DeleteNumber == ParseInteger(SubSeq(TypedInput, 7, Len(TypedInput))).value
SessionCleared == ~awaiting_item_confirmation' /\ all_detected_items' = <<>>

\* C29: in the nutrition chat, after every input and for every sequence of
\* inputs, awaiting_item_confirmation is true exactly when all_detected_items
\* is non-empty; "analyze" and the deletion of the last item both leave the
\* session not awaiting with an empty list, and a "delete" with a number
\* outside 1..len leaves the list unchanged.
C29_AwaitingIffItems ==
    /\ [](op = "chat" => (awaiting_item_confirmation <=> Len(all_detected_items) > 0))
    /\ [][(op = "chat" /\ chat_history' # chat_history) =>
              /\ AnalyzeTyped => SessionCleared
              /\ (DeleteTyped /\ DeleteNumber = 1 /\ Len(all_detected_items) = 1) =>
                     SessionCleared
              /\ (DeleteTyped /\ DeleteNumber \notin 1..Len(all_detected_items)) =>
                     all_detected_items' = all_detected_items]_vars

\* two inputs handled, the second of them "analyze": the session is not
\* awaiting and its list is empty
C29_Witness ==
    /\ op = "chat"
    /\ InputsTaken(chat_history) = 2
    /\ chat_history[1] = user_message("chicken soup and an apple")
    /\ chat_history[Len(chat_history)] = user_message("analyze")
    /\ ~awaiting_item_confirmation
    /\ all_detected_items = <<>>

\* C30: in the nutrition chat chat_history is append-only and every input is
\* answered: each input appends exactly one user message followed by at
\* least one assistant message, awaiting confirmation or idle; process_text
\* is invoked only when the chat is idle, and nutrition is computed only by
\* an "analyze" command given while awaiting confirmation.
C30_EveryInputAnswered ==
    /\ [][op = "chat" =>
              /\ IsPrefix(chat_history, chat_history')
              /\ chat_history' # chat_history =>
                     /\ Len(chat_history') >= Len(chat_history) + 2
                     /\ chat_history'[Len(chat_history) + 1].role = "user"
                     /\ \A k \in (Len(chat_history) + 2)..Len(chat_history') :
                            chat_history'[k].role = "assistant"]_vars
    /\ [](op = "chat" =>
              \A c \in pipeline_calls :
                  IF c.fn = "process_text" THEN ~c.awaiting
                  ELSE c.awaiting /\ Lower(c.command) \in AnalyzeCommands)

====
